---- MODULE Spec2Model ----
(***************************************************************************)
(* Personalized video feed API: the circuit breaker                        *)
(* (app/core/circuit_breaker.py), the TTL cache (app/core/cache.py), the   *)
(* feature flags (app/services/feature_flags.py), the ranking engine       *)
(* (app/services/ranking.py), the feed orchestrator                        *)
(* (app/services/feed.py) and the route (app/api/routers/feed.py).         *)
(*                                                                         *)
(* The specifications share the variables:                                 *)
(*   CBSpec     threads calling CircuitBreaker.call() concurrently;        *)
(*   CBSeqSpec  the same calls made one at a time;                         *)
(*   Spec       GET /v1/feed requests served by FeedService.get_feed;      *)
(*   FixedSpec  the same requests with repositories that answer every      *)
(*              fetch, fixed settings and a clock that stands still;       *)
(*   RankSpec   a caller of RankingEngine.rank reading page after page;    *)
(*   ScoreSpec  one candidate scored under rising boost weights;           *)
(*   ETagSpec   the route answering two feed responses;                    *)
(*   FlagSpec   evaluations of is_personalization_enabled while the        *)
(*              settings and the percentage change;                        *)
(*   ColdSpec   requests whose signals or tenant config may be missing;    *)
(*   CacheSeqSpec  one caller of an InMemoryCache;                         *)
(*   CacheSpec  threads making one call each on an InMemoryCache;          *)
(*   StampedeSpec  threads calling get_or_set concurrently;                *)
(*   CancelSpec  requests that may be cancelled at a repository fetch;     *)
(*   CBSlowSpec  CBSpec with a recovery timeout as long as the clock runs; *)
(*   CBLiveSpec  the breaker under fairness, with a clock that never       *)
(*              stops.                                                     *)
(***************************************************************************)
EXTENDS Integers, Sequences, FiniteSets, TLC

\* ------------------------------------------------------------------ bounds

\* Number of threads calling the breaker concurrently.
NThreads == 2
\* Largest failure_threshold a breaker is constructed with.
MaxThreshold == 2
\* Largest recovery_timeout_sec a breaker is constructed with.
MaxRecovery == 1
\* Last clock reading of the breaker specifications (seconds).
MaxTime == 2

Threads == 1..NThreads

\* Python's None, for the Optional[float] last_failure_time.
None == -1

VARIABLES
    cb,                  \* the breaker: _state, _failure_count, _last_failure_time
    failure_threshold,   \* CircuitBreaker._failure_threshold
    recovery_timeout_sec,\* CircuitBreaker._recovery_timeout_sec
    lock,                \* CircuitBreaker._lock: 0 when free, else the holding thread
    now,                 \* time.time()
    thr,                 \* per thread: the position of its call() and what it saw
    consec               \* history: primary failures since the last primary success

cbvars == <<cb, failure_threshold, recovery_timeout_sec, lock, now, thr, consec>>

VARIABLES
    settings,            \* Settings: KILL_SWITCH_ACTIVE, PERSONALIZATION_ENABLED, ROLLOUT_PERCENTAGE
    rollout_percentage,  \* ConfigBasedFeatureFlagService._rollout_percentage
    req                  \* the get_feed request in progress, or the last one served

feedvars == <<settings, rollout_percentage, req>>

VARIABLES
    et,                  \* two responses and the ETag headers the route gives them
    cache,               \* InMemoryCache: _store and _default_ttl
    cth,                 \* per thread: the position of its call on the cache
    cop,                 \* the last call made on the cache by a sequential caller
    fl                   \* the last and the first call of is_personalization_enabled

aux == <<et, cache, cth, cop, fl>>

VARIABLES
    rk,                  \* a caller of RankingEngine.rank: its arguments, the result, the pages read
    sc,                  \* a candidate being scored: video, user, boost_weights, final_score
    first                \* history: the first get_feed response observed, with its arguments

harness == <<rk, sc, first, aux>>

\* ------------------------------------------------------- circuit breaker

CircuitState == {"CLOSED", "OPEN", "HALF_OPEN"}

\* CircuitBreaker.__init__
NewBreaker == [state |-> "CLOSED", failure_count |-> 0, last_failure_time |-> None]

\* Variant of _should_attempt_reset that forgets the recovery timeout.
_should_attempt_reset_no_timeout(b, t) ==
    IF b.last_failure_time = None
    THEN TRUE
    ELSE (t - b.last_failure_time) >= 0

\* _should_attempt_reset: elapsed >= recovery timeout, or no failure recorded
_should_attempt_reset(b, t) ==
    IF b.last_failure_time = None
    THEN TRUE
    ELSE (t - b.last_failure_time) >= recovery_timeout_sec

\* Variant of _on_success that resets the count but never closes the breaker.
_on_success_never_closes(b) ==
    [b EXCEPT !.failure_count = 0]

\* _on_success, the body under the lock
_on_success(b) ==
    [b EXCEPT !.failure_count = 0,
              !.state = IF b.state = "HALF_OPEN" THEN "CLOSED" ELSE b.state]

\* Variant of _on_failure that opens only past the threshold (> for >=).
_on_failure_off_by_one(b, t) ==
    LET n == b.failure_count + 1 IN
    [state |-> IF n > failure_threshold THEN "OPEN" ELSE b.state,
     failure_count |-> n,
     last_failure_time |-> t]

\* Variant of _on_failure that counts the failure and leaves the state alone.
_on_failure_never_opens(b, t) ==
    [state |-> b.state,
     failure_count |-> b.failure_count + 1,
     last_failure_time |-> t]

\* Variant of _on_failure that counts a failure only while CLOSED.
_on_failure_counts_closed_only(b, t) ==
    LET n == IF b.state = "CLOSED" THEN b.failure_count + 1 ELSE b.failure_count IN
    [state |-> IF n >= failure_threshold THEN "OPEN" ELSE b.state,
     failure_count |-> n,
     last_failure_time |-> t]

\* _on_failure, the body under the lock
_on_failure(b, t) ==
    LET n == b.failure_count + 1 IN
    [state |-> IF n >= failure_threshold THEN "OPEN" ELSE b.state,
     failure_count |-> n,
     last_failure_time |-> t]

\* reset, the body under the lock
reset_body(b) == NewBreaker

\* Variant of the head of call() that lets the primary run after the
\* recovery timeout without leaving OPEN.
call_entry_probe_stays_open(b, t, has_fallback) ==
    IF b.state = "OPEN"
    THEN IF _should_attempt_reset(b, t)
         THEN [cb |-> b, next |-> "primary"]
         ELSE IF has_fallback
              THEN [cb |-> b, next |-> "fallback"]
              ELSE [cb |-> b, next |-> "open_error"]
    ELSE [cb |-> b, next |-> "primary"]

\* Variant of the head of call() in which a rejected call restarts the
\* recovery timer.
call_entry_rejection_restarts_timer(b, t, has_fallback) ==
    IF b.state = "OPEN"
    THEN IF _should_attempt_reset(b, t)
         THEN [cb |-> [b EXCEPT !.state = "HALF_OPEN"], next |-> "primary"]
         ELSE IF has_fallback
              THEN [cb |-> [b EXCEPT !.last_failure_time = t], next |-> "fallback"]
              ELSE [cb |-> [b EXCEPT !.last_failure_time = t], next |-> "open_error"]
    ELSE [cb |-> b, next |-> "primary"]

\* The critical section at the head of call(): what the call does next.
\*   "primary"        leave the lock and run func
\*   "fallback"       run fallback() while still holding the lock
\*   "open_error"     raise CircuitBreakerOpenError
call_entry(b, t, has_fallback) ==
    IF b.state = "OPEN"
    THEN IF _should_attempt_reset(b, t)
         THEN [cb |-> [b EXCEPT !.state = "HALF_OPEN"], next |-> "primary"]
         ELSE IF has_fallback
              THEN [cb |-> b, next |-> "fallback"]
              ELSE [cb |-> b, next |-> "open_error"]
    ELSE [cb |-> b, next |-> "primary"]

\* ------------------------------------------------------------ sequences

Min(a, b) == IF a <= b THEN a ELSE b

Max(a, b) == IF a >= b THEN a ELSE b

\* The largest element of a finite set of naturals, 0 for the empty set.
MaxOf(S) == IF S = {} THEN 0 ELSE CHOOSE x \in S : \A y \in S : y <= x

RECURSIVE SumSeq(_)
SumSeq(s) == IF s = <<>> THEN 0 ELSE Head(s) + SumSeq(Tail(s))

\* seq[:n] for n >= 0
Take(s, n) == SubSeq(s, 1, Min(n, Len(s)))

\* Python's seq[a:b] for integers a, b (negative indexes count from the end).
PySlice(s, a, b) ==
    LET n == Len(s)
        lo == IF a < 0 THEN Max(n + a, 0) ELSE Min(a, n)
        hi == IF b < 0 THEN Max(n + b, 0) ELSE Min(b, n)
    IN SubSeq(s, lo + 1, hi)

\* list.insert(idx, x) for 0 <= idx <= len
InsertAt(s, idx, x) == SubSeq(s, 1, idx) \o <<x>> \o SubSeq(s, idx + 1, Len(s))

\* Stable insertion sort of [item, key] pairs, descending by key.
RECURSIVE SortPairsFrom(_, _)
SortPairsFrom(done, rest) ==
    IF rest = <<>> THEN done
    ELSE LET x == Head(rest)
             k == Cardinality({i \in 1..Len(done) : done[i].key >= x.key})
         IN SortPairsFrom(InsertAt(done, k, x), Tail(rest))

\* sorted(s, key=Key, reverse=True): descending by key, elements with equal
\* keys in their original order.
SortDesc(s, Key(_)) ==
    LET pairs == [i \in 1..Len(s) |-> [item |-> s[i], key |-> Key(s[i])]]
        sorted == SortPairsFrom(<<>>, pairs)
    IN [i \in 1..Len(s) |-> sorted[i].item]

\* ------------------------------------------------- repositories (fixtures)

HOUR == 3600

\* time.time() when the repositories are constructed: late enough that the
\* oldest fixture video (72 hours old) has published_at >= 0.
ConstructTime == 72 * HOUR

Video(id, score, tags, hours_old) ==
    [id |-> id, score |-> score, tags |-> tags, maturity_rating |-> "G",
     published_at |-> ConstructTime - hours_old * HOUR]

\* InMemoryCandidateRepository._initialize_mock_data
sports_videos ==
    << Video("v1", 95, {"sports", "football", "viral"}, 2),
       Video("v2", 80, {"sports", "tennis"}, 24),
       Video("v3", 60, {"strategy", "board_games"}, 48),
       Video("v4", 85, {"viral", "animals"}, 12),
       Video("v5", 40, {"news", "construction"}, 1) >>

news_videos ==
    << Video("n1", 99, {"politics", "news"}, 1),
       Video("n2", 70, {"news", "weather"}, 4),
       Video("n3", 88, {"finance", "tech"}, 10),
       Video("n4", 92, {"animals", "positive"}, 72) >>

Tenants == {"tenant_sports", "tenant_news", "tenant_unknown"}

VideoScore(v) == v.score

\* Length of the pre-computed fallback feed: sorted(...)[:3]
FALLBACK_SIZE == 3

\* InMemoryCandidateRepository.get_candidates
get_candidates(tenant_id) ==
    CASE tenant_id = "tenant_sports" -> sports_videos
      [] tenant_id = "tenant_news" -> news_videos
      [] OTHER -> <<>>

\* InMemoryCandidateRepository.get_fallback_feed
get_fallback_feed(tenant_id) ==
    CASE tenant_id = "tenant_sports" -> Take(SortDesc(sports_videos, VideoScore), FALLBACK_SIZE)
      [] tenant_id = "tenant_news" -> Take(SortDesc(news_videos, VideoScore), FALLBACK_SIZE)
      [] OTHER -> <<>>

\* Weights and affinities are held in tenths (1.5 is 15).
Weights(recency, popularity, user_affinity) ==
    [recency |-> recency, popularity |-> popularity, user_affinity |-> user_affinity]

\* InMemoryTenantConfigRepository.get_default_config: TenantRankingRules(tenant_id)
get_default_config(tenant_id) ==
    [tenant_id |-> tenant_id,
     boost_weights |-> Weights(10, 10, 10),
     exclude_tags |-> {},
     max_maturity |-> "",
     editorial_boosts |-> <<>>]

\* InMemoryTenantConfigRepository.get_config returns a config (not None).
has_config(tenant_id) == tenant_id \in {"tenant_sports", "tenant_news"}

\* InMemoryTenantConfigRepository.get_config, where has_config
get_config(tenant_id) ==
    CASE tenant_id = "tenant_sports" ->
           [tenant_id |-> tenant_id,
            boost_weights |-> Weights(15, 5, 20),
            exclude_tags |-> {"politics"},
            max_maturity |-> "",
            editorial_boosts |-> <<>>]
      [] tenant_id = "tenant_news" ->
           [tenant_id |-> tenant_id,
            boost_weights |-> Weights(20, 10, 5),
            exclude_tags |-> {},
            max_maturity |-> "PG",
            editorial_boosts |-> <<>>]
      [] OTHER -> get_default_config(tenant_id)

Users == {"user_sporty", "user_newsy", "user_new"}

\* UserSignals(user_hash=user_hash): nothing watched, no affinities
UserSignals(user_hash) ==
    [user_hash |-> user_hash, watched_ids |-> {}, affinities |-> <<>>]

\* InMemoryUserSignalRepository.get_signals: the fixture users; any other
\* user gets empty signals.
get_signals(user_hash) ==
    CASE user_hash = "user_sporty" ->
           [user_hash |-> user_hash, watched_ids |-> {"v2"},
            affinities |-> [sports |-> 9, football |-> 8, strategy |-> 1]]
      [] user_hash = "user_newsy" ->
           [user_hash |-> user_hash, watched_ids |-> {"n1"},
            affinities |-> [politics |-> 9, finance |-> 7]]
      [] OTHER -> UserSignals(user_hash)

\* ------------------------------------------------------- feature flags

\* The characters of each user hash, as code points (ord).
UserChars ==
    [user_sporty |-> <<117, 115, 101, 114, 95, 115, 112, 111, 114, 116, 121>>,
     user_newsy |-> <<117, 115, 101, 114, 95, 110, 101, 119, 115, 121>>,
     user_new |-> <<117, 115, 101, 114, 95, 110, 101, 119>>,
     user_unknown_123 |-> <<117, 115, 101, 114, 95, 117, 110, 107, 110, 111, 119, 110,
                            95, 49, 50, 51>>]

\* int.from_bytes(md5(user_hash).digest()[:4], "big") % 100, evaluated for
\* the user hashes.
md5_bucket(user_hash) ==
    CASE user_hash = "user_sporty" -> 67
      [] user_hash = "user_newsy" -> 84
      [] user_hash = "user_new" -> 45
      [] user_hash = "user_unknown_123" -> 92

\* _is_user_in_rollout, the bucket equal to the percentage admitted
_is_user_in_rollout_inclusive(user_hash, percentage) == md5_bucket(user_hash) <= percentage

\* _is_user_in_rollout
_is_user_in_rollout(user_hash, percentage) == md5_bucket(user_hash) < percentage

\* is_personalization_enabled
is_personalization_enabled(st, percentage, user_hash) ==
    IF st.KILL_SWITCH_ACTIVE THEN FALSE
    ELSE IF ~st.PERSONALIZATION_ENABLED THEN FALSE
    ELSE IF percentage < 100 THEN _is_user_in_rollout(user_hash, percentage)
    ELSE TRUE

\* get_feed's own rollout gate: sum(ord(c) for c in user_hash) % 100
user_hash_int(user_hash) == SumSeq(UserChars[user_hash])

\* Variant of get_feed's rollout gate that excludes nobody.
excluded_by_rollout_never(st, user_hash) == FALSE

excluded_by_rollout(st, user_hash) ==
    (user_hash_int(user_hash) % 100) >= st.ROLLOUT_PERCENTAGE

\* ------------------------------------------------------- ranking engine

\* A cursor string, by what base64/JSON decoding makes of it:
\*   kind   "none" (no cursor), "empty" (""), "not_base64", "not_json",
\*          "json_scalar" (valid JSON that is no object), "json_object"
\*   off_t  the type of the object's "offset": "missing", "int", "str",
\*          "null" or "float";  off_v  its value when an int
Cursor(kind, off_t, off_v) == [kind |-> kind, off_t |-> off_t, off_v |-> off_v]

NoCursor == Cursor("none", "missing", 0)

IntValue(n) == [t |-> "int", v |-> n]

\* _decode_cursor: the Python value used as offset
_decode_cursor(cursor) ==
    IF cursor.kind \in {"none", "empty"} THEN IntValue(0)
    ELSE IF cursor.kind \in {"not_base64", "not_json", "json_scalar"} THEN IntValue(0)
    ELSE IF cursor.off_t = "missing" THEN IntValue(0)
    ELSE [t |-> cursor.off_t, v |-> cursor.off_v]

\* Variant of _encode_cursor that encodes the offset after the next item.
_encode_cursor_off_by_one(offset) == Cursor("json_object", "int", offset + 1)

\* _encode_cursor
_encode_cursor(offset) == Cursor("json_object", "int", offset)

Ratings == <<"G", "PG", "PG-13", "R", "NC-17">>

RatingIndex(r) == CHOOSE i \in 1..Len(Ratings) : Ratings[i] = r

\* _is_maturity_allowed
_is_maturity_allowed(video_rating, max_rating) ==
    IF \E i \in 1..Len(Ratings) : Ratings[i] = video_rating
    THEN IF \E i \in 1..Len(Ratings) : Ratings[i] = max_rating
         THEN RatingIndex(video_rating) <= RatingIndex(max_rating)
         ELSE TRUE
    ELSE TRUE

\* Variant of _filter_candidates without the maturity filter.
_filter_candidates_no_maturity(candidates, user, config) ==
    LET keep(video) ==
            /\ video.id \notin user.watched_ids
            /\ video.tags \cap config.exclude_tags = {}
    IN SelectSeq(candidates, keep)

\* _filter_candidates
_filter_candidates(candidates, user, config) ==
    LET keep(video) ==
            /\ video.id \notin user.watched_ids
            /\ video.tags \cap config.exclude_tags = {}
            /\ (config.max_maturity = ""
                \/ _is_maturity_allowed(video.maturity_rating, config.max_maturity))
    IN SelectSeq(candidates, keep)

DECAY_HOURS == 48

\* age_hours of RecencyScoring; clock readings and published_at are whole
\* hours apart wherever ranking runs, so the division is exact.
AgeHours(video, t) == Max(0, (t - video.published_at) \div HOUR)

\* RecencyScoring.calculate_boost, times 10 * DECAY_HOURS * 10
RecencyBoost(video, config, t) ==
    IF AgeHours(video, t) >= DECAY_HOURS THEN 0
    ELSE 10 * config.boost_weights.recency * (DECAY_HOURS - AgeHours(video, t))

\* AffinityScoring.calculate_boost, times 10 * DECAY_HOURS * 10
AffinityBoost(video, user, config) ==
    LET max_affinity ==
            MaxOf({0} \cup {user.affinities[tag] :
                                tag \in video.tags \cap DOMAIN user.affinities})
    IN DECAY_HOURS * config.boost_weights.user_affinity * max_affinity

\* Variant of final_score that subtracts the boosts: base_score * (1 - total_boost).
final_score_subtracts_boost(video, user, config, t) ==
    video.score * config.boost_weights.popularity
        * (100 * DECAY_HOURS - RecencyBoost(video, config, t)
           - AffinityBoost(video, user, config))

\* final_score = base_score * (1 + total_boost), times 10 * 10 * DECAY_HOURS * 10
final_score(video, user, config, t) ==
    video.score * config.boost_weights.popularity
        * (100 * DECAY_HOURS + RecencyBoost(video, config, t)
           + AffinityBoost(video, user, config))

\* _score_candidates
_score_candidates(candidates, user, config, t) ==
    [i \in 1..Len(candidates) |->
        [video |-> candidates[i],
         final_score |-> final_score(candidates[i], user, config, t)]]

ScoredKey(sv) == sv.final_score

\* list.insert(idx, x) for any integer idx
PyInsert(s, idx, x) ==
    InsertAt(s, IF idx < 0 THEN Max(Len(s) + idx, 0) ELSE Min(idx, Len(s)), x)

\* The insertion loop of _apply_editorial_boosts, over the positions left.
RECURSIVE InsertBoosted(_, _, _)
InsertBoosted(result, positions, boosted_items) ==
    IF positions = {} THEN result
    ELSE LET position == CHOOSE p \in positions : \A q \in positions : p <= q
             insert_idx == Min(position, Len(result))
         IN InsertBoosted(PyInsert(result, insert_idx, boosted_items[position]),
                          positions \ {position}, boosted_items)

\* Variant of _apply_editorial_boosts that leaves the pinned items where the
\* score order put them.
_apply_editorial_boosts_ignored(scored, config) == scored

\* _apply_editorial_boosts: boosted_items is keyed by position, so of several
\* items boosted to one position the last in score order is kept.
_apply_editorial_boosts(scored, config) ==
    IF DOMAIN config.editorial_boosts = {} THEN scored
    ELSE LET boosts == config.editorial_boosts
             is_boosted(sv) == sv.video.id \in DOMAIN boosts
             is_remaining(sv) == sv.video.id \notin DOMAIN boosts
             boosted == SelectSeq(scored, is_boosted)
             positions == {boosts[boosted[i].video.id] : i \in 1..Len(boosted)}
             boosted_items ==
                 [p \in positions |->
                    boosted[CHOOSE i \in 1..Len(boosted) :
                              /\ boosts[boosted[i].video.id] = p
                              /\ \A j \in 1..Len(boosted) :
                                    boosts[boosted[j].video.id] = p => j <= i]]
         IN InsertBoosted(SelectSeq(scored, is_remaining), positions, boosted_items)

\* The ids of a list of videos or scored videos (FeedItem.id).
VideoIds(videos) == [i \in 1..Len(videos) |-> videos[i].id]

ScoredIds(scored) == [i \in 1..Len(scored) |-> scored[i].video.id]

\* The post-editorial order that rank paginates.
RankedOrder(candidates, user, config, t) ==
    _apply_editorial_boosts(
        SortDesc(_score_candidates(_filter_candidates(candidates, user, config),
                                   user, config, t),
                 ScoredKey),
        config)

\* Variant of rank whose has_more is len(scored) >= offset + limit.
rank_has_more_inclusive(candidates, user, config, limit, cursor, t) ==
    LET offset == _decode_cursor(cursor)
        scored == RankedOrder(candidates, user, config, t)
    IN IF offset.t # "int"
       THEN [raised |-> TRUE, items |-> <<>>, next_cursor |-> NoCursor,
             has_more |-> FALSE]
       ELSE LET has_more == Len(scored) >= offset.v + limit IN
            [raised |-> FALSE,
             items |-> ScoredIds(PySlice(scored, offset.v, offset.v + limit)),
             next_cursor |-> IF has_more THEN _encode_cursor(offset.v + limit)
                             ELSE NoCursor,
             has_more |-> has_more]

\* Variant of rank that returns a next cursor with the last page as well.
rank_cursor_on_last_page(candidates, user, config, limit, cursor, t) ==
    LET offset == _decode_cursor(cursor)
        scored == RankedOrder(candidates, user, config, t)
    IN IF offset.t # "int"
       THEN [raised |-> TRUE, items |-> <<>>, next_cursor |-> NoCursor,
             has_more |-> FALSE]
       ELSE LET has_more == Len(scored) > offset.v + limit IN
            [raised |-> FALSE,
             items |-> ScoredIds(PySlice(scored, offset.v, offset.v + limit)),
             next_cursor |-> _encode_cursor(offset.v + limit),
             has_more |-> has_more]

\* RankingEngine.rank: a TypeError is raised by the slice when the decoded
\* offset is no integer.
rank(candidates, user, config, limit, cursor, t) ==
    LET offset == _decode_cursor(cursor)
        scored == RankedOrder(candidates, user, config, t)
    IN IF offset.t # "int"
       THEN [raised |-> TRUE, items |-> <<>>, next_cursor |-> NoCursor,
             has_more |-> FALSE]
       ELSE LET has_more == Len(scored) > offset.v + limit IN
            [raised |-> FALSE,
             items |-> ScoredIds(PySlice(scored, offset.v, offset.v + limit)),
             next_cursor |-> IF has_more THEN _encode_cursor(offset.v + limit)
                             ELSE NoCursor,
             has_more |-> has_more]

\* --------------------------------------------------------- feed service

\* The cap of "Candidate Bounding".  The code's cap is 200; it is scaled to
\* the size of the fixture so that the truncation happens.
CANDIDATE_CAP == 4

\* candidates[:200]
BoundCandidates(candidates) ==
    IF Len(candidates) > CANDIDATE_CAP THEN Take(candidates, CANDIDATE_CAP)
    ELSE candidates

\* Variant of _get_fallback_items_sync that does not sort by score.
_get_fallback_items_sync_unsorted(candidates, limit) ==
    [items |-> VideoIds(Take(candidates, limit)),
     next_cursor |-> NoCursor,
     has_more |-> FALSE]

\* _get_fallback_items_sync
_get_fallback_items_sync(candidates, limit) ==
    [items |-> VideoIds(Take(SortDesc(candidates, VideoScore), limit)),
     next_cursor |-> NoCursor,
     has_more |-> FALSE]

\* CircuitBreaker.call without interleaving (the event loop runs it to the
\* end): the breaker afterwards and what call() returned or raised.
call(b, t, primary_ok, has_fallback) ==
    LET e == call_entry(b, t, has_fallback) IN
    IF e.next = "primary"
    THEN IF primary_ok
         THEN [cb |-> _on_success(e.cb), ran_primary |-> TRUE, outcome |-> "result"]
         ELSE [cb |-> _on_failure(e.cb, t), ran_primary |-> TRUE,
               outcome |-> IF has_fallback THEN "fallback" ELSE "primary_exception"]
    ELSE [cb |-> e.cb, ran_primary |-> FALSE,
          outcome |-> IF e.next = "fallback" THEN "fallback"
                      ELSE "CircuitBreakerOpenError"]

\* FeedResponse, or the exception get_feed raised (status "raised").
FeedResponse(items, next_cursor, has_more, is_personalized, degraded) ==
    [status |-> "ok", items |-> items, next_cursor |-> next_cursor,
     has_more |-> has_more, is_personalized |-> is_personalized,
     degraded |-> degraded]

NoResponse ==
    [status |-> "none", items |-> <<>>, next_cursor |-> NoCursor,
     has_more |-> FALSE, is_personalized |-> FALSE, degraded |-> FALSE]

Raised == [NoResponse EXCEPT !.status = "raised"]

\* The FeedResponse built by _get_fallback_feed from the fetched videos.
FallbackResponse(fallback_videos, limit, degraded) ==
    FeedResponse(VideoIds(Take(fallback_videos, limit)), NoCursor, FALSE, FALSE, degraded)

\* ------------------------------------------- circuit breaker: threads

\* A thread that is not inside call(), and what its last call did:
\*   entry    the branch the head of call() took: "short" (OPEN, no retry yet),
\*            "probe" (OPEN -> HALF_OPEN) or "pass" (not OPEN)
\*   outcome  what call() returned or raised
IdleThread ==
    [pc |-> "done", has_fallback |-> FALSE, entry |-> "none", outcome |-> "none"]

\* call(func, fallback): `with self._lock:` at the head of call(), up to the
\* release of the lock or the call of fallback() inside it.
CallEntry(t, fb) ==
    /\ thr[t].pc = "done"
    /\ lock = 0
    /\ LET e == call_entry(cb, now, fb) IN
       /\ cb' = e.cb
       /\ lock' = IF e.next = "fallback" THEN t ELSE 0
       /\ thr' = [thr EXCEPT ![t] =
            [pc |-> CASE e.next = "primary" -> "primary"
                      [] e.next = "fallback" -> "fallback_locked"
                      [] OTHER -> "done",
             has_fallback |-> fb,
             entry |-> IF e.next # "primary" THEN "short"
                       ELSE IF e.cb.state # cb.state THEN "probe" ELSE "pass",
             outcome |-> IF e.next = "open_error"
                         THEN "CircuitBreakerOpenError" ELSE "none"]]
    /\ UNCHANGED <<failure_threshold, recovery_timeout_sec, now, consec>>
    /\ UNCHANGED feedvars
    /\ UNCHANGED harness

\* fallback() of the short-circuit branch returns: the lock is released.
FallbackLocked(t) ==
    /\ thr[t].pc = "fallback_locked"
    /\ lock = t
    /\ lock' = 0
    /\ thr' = [thr EXCEPT ![t] = [@ EXCEPT !.pc = "done", !.outcome = "fallback"]]
    /\ UNCHANGED <<cb, failure_threshold, recovery_timeout_sec, now, consec>>
    /\ UNCHANGED feedvars
    /\ UNCHANGED harness

\* func() runs outside the lock and returns (ok) or raises.
Primary(t, ok) ==
    /\ thr[t].pc = "primary"
    /\ thr' = [thr EXCEPT ![t] =
         [@ EXCEPT !.pc = IF ok THEN "on_success" ELSE "on_failure"]]
    /\ UNCHANGED <<cb, failure_threshold, recovery_timeout_sec, lock, now, consec>>
    /\ UNCHANGED feedvars
    /\ UNCHANGED harness

\* _on_success() takes the lock; call() returns func's result.
OnSuccess(t) ==
    /\ thr[t].pc = "on_success"
    /\ lock = 0
    /\ cb' = _on_success(cb)
    /\ consec' = 0
    /\ thr' = [thr EXCEPT ![t] = [@ EXCEPT !.pc = "done", !.outcome = "result"]]
    /\ UNCHANGED <<failure_threshold, recovery_timeout_sec, lock, now>>
    /\ UNCHANGED feedvars
    /\ UNCHANGED harness

\* Variant of the except branch whose _on_failure() writes without taking
\* the lock.
OnFailure_without_lock(t) ==
    /\ thr[t].pc = "on_failure"
    /\ cb' = _on_failure(cb, now)
    /\ consec' = consec + 1
    /\ thr' = [thr EXCEPT ![t] =
         [@ EXCEPT !.pc = IF thr[t].has_fallback THEN "fallback" ELSE "done",
                   !.outcome = IF thr[t].has_fallback THEN "none"
                               ELSE "primary_exception"]]
    /\ UNCHANGED <<failure_threshold, recovery_timeout_sec, lock, now>>
    /\ UNCHANGED feedvars
    /\ UNCHANGED harness

\* _on_failure() takes the lock; then fallback() or re-raise.
OnFailure(t) ==
    /\ thr[t].pc = "on_failure"
    /\ lock = 0
    /\ cb' = _on_failure(cb, now)
    /\ consec' = consec + 1
    /\ thr' = [thr EXCEPT ![t] =
         [@ EXCEPT !.pc = IF thr[t].has_fallback THEN "fallback" ELSE "done",
                   !.outcome = IF thr[t].has_fallback THEN "none"
                               ELSE "primary_exception"]]
    /\ UNCHANGED <<failure_threshold, recovery_timeout_sec, lock, now>>
    /\ UNCHANGED feedvars
    /\ UNCHANGED harness

\* fallback() of the except branch runs outside the lock.
Fallback(t) ==
    /\ thr[t].pc = "fallback"
    /\ thr' = [thr EXCEPT ![t] = [@ EXCEPT !.pc = "done", !.outcome = "fallback"]]
    /\ UNCHANGED <<cb, failure_threshold, recovery_timeout_sec, lock, now, consec>>
    /\ UNCHANGED feedvars
    /\ UNCHANGED harness

\* reset()
Reset ==
    /\ lock = 0
    /\ cb' = reset_body(cb)
    /\ consec' = 0
    /\ UNCHANGED <<failure_threshold, recovery_timeout_sec, lock, now, thr>>
    /\ UNCHANGED feedvars
    /\ UNCHANGED harness

\* The clock advances by one second.
Tick ==
    /\ now < MaxTime
    /\ now' = now + 1
    /\ UNCHANGED <<cb, failure_threshold, recovery_timeout_sec, lock, thr, consec>>
    /\ UNCHANGED feedvars
    /\ UNCHANGED harness

\* ------------------------------------------------------ GET /v1/feed

\* The characters of the fixture video ids.
IdChars ==
    [v1 |-> <<"v", "1">>, v2 |-> <<"v", "2">>, v3 |-> <<"v", "3">>,
     v4 |-> <<"v", "4">>, v5 |-> <<"v", "5">>,
     n1 |-> <<"n", "1">>, n2 |-> <<"n", "2">>, n3 |-> <<"n", "3">>,
     n4 |-> <<"n", "4">>,
     a |-> <<"a">>, b |-> <<"b">>, ab |-> <<"a", "b">>]

\* "".join(item.id for item in items), as a sequence of characters
RECURSIVE JoinIds(_)
JoinIds(ids) == IF ids = <<>> THEN <<>> ELSE IdChars[Head(ids)] \o JoinIds(Tail(ids))

\* The ETag header: W/"<md5 of the joined ids>"; the hash is taken to be
\* collision-free and is represented by what it hashes.  NoHeader is an
\* absent header.
NoHeader == [present |-> FALSE, md5_of |-> <<>>]

ETag(ids) == [present |-> TRUE, md5_of |-> JoinIds(ids)]

\* An HTTP response: status, the headers the route sets, and whether it
\* carries the feed as body.
HttpResponse(status_code, etag, cache_control, vary, x_personalized, body) ==
    [status_code |-> status_code, etag |-> etag, cache_control |-> cache_control,
     vary |-> vary, x_personalized |-> x_personalized, body |-> body]

NoHttp == HttpResponse(0, NoHeader, "", "", "", FALSE)

\* Variant of the route that compares If-None-Match with the ETag without
\* asking whether either is there.
get_feed_route_304_without_etag(feed_response, if_none_match) ==
    LET etag == IF feed_response.items # <<>> THEN ETag(feed_response.items)
                ELSE NoHeader
    IN IF feed_response.status = "raised"
       THEN HttpResponse(500, NoHeader, "", "", "", FALSE)
       ELSE IF if_none_match = etag
       THEN HttpResponse(304, NoHeader, "", "", "", FALSE)
       ELSE IF feed_response.is_personalized /\ ~feed_response.degraded
       THEN HttpResponse(200, etag, "private, max-age=30", "X-User-Hash",
                         IF feed_response.is_personalized THEN "true" ELSE "false",
                         TRUE)
       ELSE HttpResponse(200, etag,
                         "public, max-age=30, stale-while-revalidate=15",
                         "Accept-Encoding",
                         IF feed_response.is_personalized THEN "true" ELSE "false",
                         TRUE)

\* Variant of the route that sends the public cache directives with every
\* feed.
get_feed_route_always_public(feed_response, if_none_match) ==
    LET etag == IF feed_response.items # <<>> THEN ETag(feed_response.items)
                ELSE NoHeader
    IN IF feed_response.status = "raised"
       THEN HttpResponse(500, NoHeader, "", "", "", FALSE)
       ELSE IF if_none_match.present /\ etag.present /\ if_none_match = etag
       THEN HttpResponse(304, NoHeader, "", "", "", FALSE)
       ELSE HttpResponse(200, etag,
                         "public, max-age=30, stale-while-revalidate=15",
                         "Accept-Encoding",
                         IF feed_response.is_personalized THEN "true" ELSE "false",
                         TRUE)

\* Variant of the route that decides the cache directives on degraded alone.
get_feed_route_private_unless_degraded(feed_response, if_none_match) ==
    LET etag == IF feed_response.items # <<>> THEN ETag(feed_response.items)
                ELSE NoHeader
    IN IF feed_response.status = "raised"
       THEN HttpResponse(500, NoHeader, "", "", "", FALSE)
       ELSE IF if_none_match.present /\ etag.present /\ if_none_match = etag
       THEN HttpResponse(304, NoHeader, "", "", "", FALSE)
       ELSE IF ~feed_response.degraded
       THEN HttpResponse(200, etag, "private, max-age=30", "X-User-Hash",
                         IF feed_response.is_personalized THEN "true" ELSE "false",
                         TRUE)
       ELSE HttpResponse(200, etag,
                         "public, max-age=30, stale-while-revalidate=15",
                         "Accept-Encoding",
                         IF feed_response.is_personalized THEN "true" ELSE "false",
                         TRUE)

\* The route get_feed after feed_service.get_feed returned feed_response (or
\* raised: unhandled_exception_handler answers 500): ETag, 304, cache headers.
get_feed_route(feed_response, if_none_match) ==
    LET etag == IF feed_response.items # <<>> THEN ETag(feed_response.items)
                ELSE NoHeader
    IN IF feed_response.status = "raised"
       THEN HttpResponse(500, NoHeader, "", "", "", FALSE)
       ELSE IF if_none_match.present /\ etag.present /\ if_none_match = etag
       THEN HttpResponse(304, NoHeader, "", "", "", FALSE)
       ELSE IF feed_response.is_personalized /\ ~feed_response.degraded
       THEN HttpResponse(200, etag, "private, max-age=30", "X-User-Hash",
                         IF feed_response.is_personalized THEN "true" ELSE "false",
                         TRUE)
       ELSE HttpResponse(200, etag,
                         "public, max-age=30, stale-while-revalidate=15",
                         "Accept-Encoding",
                         IF feed_response.is_personalized THEN "true" ELSE "false",
                         TRUE)

\* If-None-Match headers clients send: none, and the ETags of two feeds.
IfNoneMatchValues == {NoHeader, ETag(<<"v1">>), ETag(<<"n1", "n3">>)}

\* ------------------------------------------------------------ TTL cache

\* Keys and values of the entries; a value is never Python's None, which
\* get returns for an absent entry (NoValue).
CacheKeys == {"k1", "k2"}
CacheValues == {"a", "b"}
NoValue == "None"

\* Largest ttl_seconds and default_ttl_seconds, in ticks of the clock.
MaxTtl == 1

\* The ttl_seconds argument and the default_ttl_seconds of the constructor:
\* None or an int.
TtlValues == {None} \cup 0..MaxTtl

\* CacheEntry(value, expires_at); NoEntry stands for a key that is not in
\* _store.
CacheEntry(value, expires_at) ==
    [present |-> TRUE, value |-> value, expires_at |-> expires_at]

NoEntry == [present |-> FALSE, value |-> NoValue, expires_at |-> None]

EmptyStore == [k \in CacheKeys |-> NoEntry]

\* InMemoryCache(default_ttl_seconds); lock is the thread that holds _lock,
\* 0 when it is free.
InMemoryCache(default_ttl_seconds) ==
    [store |-> EmptyStore, default_ttl |-> default_ttl_seconds, lock |-> 0]

\* The holder of _lock after self.get in get_or_set, were get to return
\* without releasing it.
lock_after_get_kept(t) == t

\* The holder of _lock after self.get(key) has returned to thread t: the
\* with block has released it.
lock_after_get(t) == 0

\* CacheEntry.is_expired, never past the expiry
is_expired_never(entry, t) == FALSE

\* CacheEntry.is_expired at time.time() = t
is_expired(entry, t) ==
    IF entry.expires_at = None THEN FALSE ELSE t > entry.expires_at

\* InMemoryCache.get at time t: the store it leaves and the value it returns
get(store, key, t) ==
    IF ~store[key].present THEN [store |-> store, result |-> NoValue]
    ELSE IF is_expired(store[key], t)
    THEN [store |-> [store EXCEPT ![key] = NoEntry], result |-> NoValue]
    ELSE [store |-> store, result |-> store[key].value]

\* The first two lines of InMemoryCache.set at time t: the expiry of the
\* entry.  "if ttl" is false for None and for 0.
expires_at_of(ttl_seconds, default_ttl, t) ==
    LET ttl == IF ttl_seconds # None THEN ttl_seconds ELSE default_ttl
    IN  IF ttl # None /\ ttl # 0 THEN t + ttl ELSE None

\* The locked part of InMemoryCache.set
store_entry(store, key, value, expires_at) ==
    [store EXCEPT ![key] = CacheEntry(value, expires_at)]

\* InMemoryCache.set at time t
set(c, key, value, ttl_seconds, t) ==
    store_entry(c.store, key, value, expires_at_of(ttl_seconds, c.default_ttl, t))

\* InMemoryCache.delete
delete(store, key) ==
    [store |-> [store EXCEPT ![key] = NoEntry], result |-> store[key].present]

\* InMemoryCache.clear
clear(store) == EmptyStore

\* InMemoryCache.size: expired entries that are still stored are counted
size(store) == Cardinality({k \in CacheKeys : store[k].present})

\* InMemoryCache.cleanup_expired at time t
cleanup_expired(store, t) ==
    LET expired_keys == {k \in CacheKeys : store[k].present /\ is_expired(store[k], t)}
    IN  [store  |-> [k \in CacheKeys |-> IF k \in expired_keys THEN NoEntry ELSE store[k]],
         result |-> Cardinality(expired_keys)]

\* InMemoryCache.get_or_set, the factory always run
get_or_set_always_computes(c, key, computed_value, ttl_seconds, t) ==
    [store |-> set([c EXCEPT !.store = get(c.store, key, t).store],
                   key, computed_value, ttl_seconds, t),
     result |-> computed_value, factory_calls |-> 1]

\* InMemoryCache.get_or_set by a caller that nothing interleaves with, at
\* time t, for a factory that returns computed_value: the store it leaves,
\* the value it returns and the number of calls of the factory.
get_or_set(c, key, computed_value, ttl_seconds, t) ==
    LET got == get(c.store, key, t)
    IN  IF got.result # NoValue
        THEN [store |-> got.store, result |-> got.result, factory_calls |-> 0]
        ELSE [store |-> set([c EXCEPT !.store = got.store],
                            key, computed_value, ttl_seconds, t),
              result |-> computed_value, factory_calls |-> 1]

\* No call made yet by the sequential caller.  Of a call: the method, its
\* arguments (value is what set stores and what the factory returns), and
\* what it returned: result for get and get_or_set, existed for delete (and
\* for get: the key was in _store), count for size and cleanup_expired;
\* factory_calls is the number of times get_or_set called the factory.
NoCall ==
    [op |-> "none", key |-> "", value |-> NoValue, ttl |-> None,
     result |-> NoValue, existed |-> FALSE, count |-> 0, factory_calls |-> 0]

\* A thread that has not called the cache.  Of its call, besides the fields
\* of NoCall: expires_at computed by set before it takes the lock, the clock
\* readings at the invocation and at the response, and the threads whose
\* calls had returned when it was invoked.
IdleCall ==
    [pc |-> "idle", op |-> "none", key |-> "", value |-> NoValue, ttl |-> None,
     expires_at |-> None, result |-> NoValue, existed |-> FALSE, count |-> 0,
     t_inv |-> 0, t_res |-> 0, after |-> {}]

\* No InMemoryCache constructed.
NoCache == [store |-> <<>>, default_ttl |-> None, lock |-> 0]

\* No responses compared, no cache, no thread and no caller of one.
AuxInit ==
    /\ et = [pc |-> "none"]
    /\ cache = NoCache
    /\ cth = <<>>
    /\ cop = [op |-> "none"]
    /\ fl = [pc |-> "none"]

\* ------------------------------------------------- feed service: requests

\* Largest limit a request asks for.
MaxLimit == 2
\* Largest offset a client-made cursor carries.
MaxOffset == 1
\* Number of times the clock of the feed service advances.
MaxFeedTicks == 1
\* Hours by which the clock of the feed service advances at a time.
FeedTickHours == 12

\* Values written to ROLLOUT_PERCENTAGE and to the flag service's percentage.
RolloutValues == {50, 100}

\* The cursors clients send: none, a string that is no base64, an object
\* whose offset is a string, and well-formed cursors.
ClientCursors ==
    {NoCursor, Cursor("not_base64", "missing", 0), Cursor("json_object", "str", 0)}
        \cup {_encode_cursor(n) : n \in 1..MaxOffset}

\* No request in progress and none served yet.  Fields of a request:
\*   pc        "idle" (no request), "done" (get_feed returned or raised, resp
\*             is what the caller gets), or the repository fetch the request
\*             is suspended in
\*   degraded  the degraded argument of the pending _get_fallback_feed
\*   in_try    the pending _get_fallback_feed was called inside get_feed's try
\*   cause     why the response is what it is: "kill_switch", "feature_off",
\*             "rollout", "fetch_error", "empty", "ranked", "rank_failed",
\*             "breaker_open"
\*   builder   what built the items: "rank", "inline_fallback", "repo_fallback"
\*   ran_ranking  RankingEngine.rank was called
\*   fallback_raised  a get_fallback_feed fetch of this request raised
\*   http      while idle: the HTTP response the last request was answered with
\*   signals_none  get_signals returned None to this request
NoRequest ==
    [pc |-> "idle", tenant_id |-> "tenant_unknown", user_hash |-> "user_new",
     limit |-> 1, cursor |-> NoCursor, degraded |-> FALSE, in_try |-> FALSE,
     cause |-> "none", builder |-> "none", ran_ranking |-> FALSE,
     fallback_raised |-> FALSE, resp |-> NoResponse, http |-> NoHttp,
     signals_none |-> FALSE]

\* Settings() defaults and ConfigBasedFeatureFlagService(rollout_percentage=100.0)
\* (get_feature_flag_service)
FeedVarsInit ==
    /\ settings = [KILL_SWITCH_ACTIVE |-> FALSE, PERSONALIZATION_ENABLED |-> TRUE,
                   ROLLOUT_PERCENTAGE |-> 100]
    /\ rollout_percentage = 100
    /\ req = NoRequest

\* No caller of rank, no candidate being scored, no response observed.
HarnessInit ==
    /\ rk = [pc |-> "none"]
    /\ sc = [pc |-> "none"]
    /\ first = [seen |-> FALSE]
    /\ AuxInit

\* A breaker constructed with any parameters within the bounds, for the
\* threads that call it.
CBInit ==
    /\ cb = NewBreaker
    /\ failure_threshold \in 1..MaxThreshold
    /\ recovery_timeout_sec \in 1..MaxRecovery
    /\ lock = 0
    /\ now = 0
    /\ thr = [t \in Threads |-> IdleThread]
    /\ consec = 0
    /\ FeedVarsInit
    /\ HarnessInit

\* A breaker whose recovery timeout is as long as the clock runs, so that
\* calls arrive at several readings of the clock while it is OPEN.
CBSlowInit ==
    /\ cb = NewBreaker
    /\ failure_threshold \in 1..MaxThreshold
    /\ recovery_timeout_sec = MaxTime
    /\ lock = 0
    /\ now = 0
    /\ thr = [t \in Threads |-> IdleThread]
    /\ consec = 0
    /\ FeedVarsInit
    /\ HarnessInit

\* Settings.CIRCUIT_BREAKER_FAILURE_THRESHOLD
CIRCUIT_BREAKER_FAILURE_THRESHOLD == 5

\* Settings.CIRCUIT_BREAKER_RECOVERY_TIMEOUT_SEC
CIRCUIT_BREAKER_RECOVERY_TIMEOUT_SEC == 30

\* The feed service as get_feed_service wires it: the breaker of
\* get_ranking_circuit_breaker, the repositories at ConstructTime.
Init ==
    /\ cb = NewBreaker
    /\ failure_threshold = CIRCUIT_BREAKER_FAILURE_THRESHOLD
    /\ recovery_timeout_sec = CIRCUIT_BREAKER_RECOVERY_TIMEOUT_SEC
    /\ lock = 0
    /\ now = ConstructTime
    /\ thr = [t \in Threads |-> IdleThread]
    /\ consec = 0
    /\ FeedVarsInit
    /\ HarnessInit

\* get_feed up to its first suspension: the feature flags and the rollout gate.
GetFeed(tenant_id, user_hash, limit, cursor) ==
    /\ req.pc = "idle"
    /\ LET flag == is_personalization_enabled(settings, rollout_percentage, user_hash)
           personalization_enabled == flag /\ ~excluded_by_rollout(settings, user_hash)
       IN req' = [NoRequest EXCEPT
                    !.pc = IF personalization_enabled THEN "get_signals"
                           ELSE "get_fallback_feed",
                    !.tenant_id = tenant_id,
                    !.user_hash = user_hash,
                    !.limit = limit,
                    !.cursor = cursor,
                    !.cause = IF settings.KILL_SWITCH_ACTIVE THEN "kill_switch"
                              ELSE IF ~settings.PERSONALIZATION_ENABLED THEN "feature_off"
                              ELSE IF ~personalization_enabled THEN "rollout"
                              ELSE "none"]
    /\ UNCHANGED <<cbvars, settings, rollout_percentage>>
    /\ UNCHANGED harness

\* Variant of the except clause that forgets degraded=True.
FetchRaisedNotDegraded ==
    [req EXCEPT !.pc = "get_fallback_feed", !.degraded = FALSE, !.in_try = FALSE,
                !.cause = "fetch_error"]

\* A fetch of the personalized path raised: get_feed's except clause calls
\* _get_fallback_feed(tenant_id, limit, degraded=True).
FetchRaised ==
    [req EXCEPT !.pc = "get_fallback_feed", !.degraded = TRUE, !.in_try = FALSE,
                !.cause = "fetch_error"]

\* await self._user_signal_repo.get_signals(user_hash) returns or raises.
FetchSignals(ok) ==
    /\ req.pc = "get_signals"
    /\ req' = IF ok THEN [req EXCEPT !.pc = "get_candidates"] ELSE FetchRaised
    /\ UNCHANGED <<cbvars, settings, rollout_percentage>>
    /\ UNCHANGED harness

\* await self._candidate_repo.get_candidates(tenant_id) returns or raises.
FetchCandidates(ok) ==
    /\ req.pc = "get_candidates"
    /\ req' = IF ok THEN [req EXCEPT !.pc = "get_config"] ELSE FetchRaised
    /\ UNCHANGED <<cbvars, settings, rollout_percentage>>
    /\ UNCHANGED harness

\* _get_personalized_feed from the return of get_config to its end: the
\* missing-data handling, the cap, and rank through the breaker.
PersonalizeWith(config_none) ==
    LET candidates == get_candidates(req.tenant_id)
        user_signals == IF req.signals_none THEN UserSignals(req.user_hash)
                        ELSE get_signals(req.user_hash)
        config == IF config_none THEN get_default_config(req.tenant_id)
                  ELSE get_config(req.tenant_id)
        capped == BoundCandidates(candidates)
        ranked == rank(capped, user_signals, config, req.limit, req.cursor, now)
        c == call(cb, now, ~ranked.raised, TRUE)
        res == IF c.outcome = "result" THEN ranked
               ELSE _get_fallback_items_sync(capped, req.limit)
    IN IF candidates = <<>>
       THEN /\ req' = [req EXCEPT !.pc = "get_fallback_feed", !.degraded = TRUE,
                                  !.in_try = TRUE, !.cause = "empty"]
            /\ UNCHANGED <<cb, consec>>
       ELSE /\ cb' = c.cb
            /\ consec' = IF ~c.ran_primary THEN consec
                         ELSE IF c.outcome = "result" THEN 0 ELSE consec + 1
            /\ req' = [req EXCEPT
                 !.pc = "done",
                 !.ran_ranking = c.ran_primary,
                 !.cause = IF c.outcome = "result" THEN "ranked"
                           ELSE IF c.ran_primary THEN "rank_failed"
                           ELSE "breaker_open",
                 !.builder = IF c.outcome = "result" THEN "rank" ELSE "inline_fallback",
                 !.resp = FeedResponse(res.items, res.next_cursor, res.has_more,
                                       TRUE, FALSE)]

\* The same with what InMemoryTenantConfigRepository.get_config returns.
Personalize == PersonalizeWith(~has_config(req.tenant_id))

\* await self._tenant_config_repo.get_config(tenant_id) returns or raises.
FetchConfig(ok) ==
    /\ req.pc = "get_config"
    /\ IF ok THEN Personalize
       ELSE req' = FetchRaised /\ UNCHANGED <<cb, consec>>
    /\ UNCHANGED <<failure_threshold, recovery_timeout_sec, lock, now, thr>>
    /\ UNCHANGED <<settings, rollout_percentage>>
    /\ UNCHANGED harness

\* await self._candidate_repo.get_fallback_feed(tenant_id) in
\* _get_fallback_feed returns or raises.  Raised inside get_feed's try, the
\* except clause calls _get_fallback_feed again; raised outside, get_feed raises.
FetchFallback(ok) ==
    /\ req.pc = "get_fallback_feed"
    /\ req' = IF ok
              THEN [req EXCEPT
                      !.pc = "done",
                      !.builder = "repo_fallback",
                      !.resp = FallbackResponse(get_fallback_feed(req.tenant_id),
                                                req.limit, req.degraded)]
              ELSE IF req.in_try THEN [FetchRaised EXCEPT !.fallback_raised = TRUE]
              ELSE [req EXCEPT !.pc = "done", !.fallback_raised = TRUE,
                               !.resp = Raised]
    /\ UNCHANGED <<cbvars, settings, rollout_percentage>>
    /\ UNCHANGED harness

\* feed_service.get_feed has returned (or raised) to the route, which
\* answers the client: the request is over.
Return(if_none_match) ==
    /\ req.pc = "done"
    /\ req' = [NoRequest EXCEPT !.http = get_feed_route(req.resp, if_none_match)]
    /\ UNCHANGED <<cbvars, settings, rollout_percentage>>
    /\ UNCHANGED harness

\* settings.KILL_SWITCH_ACTIVE = v
SetKillSwitch(v) ==
    /\ settings' = [settings EXCEPT !.KILL_SWITCH_ACTIVE = v]
    /\ UNCHANGED <<cbvars, rollout_percentage, req>>
    /\ UNCHANGED harness

\* settings.PERSONALIZATION_ENABLED = v
SetPersonalizationEnabled(v) ==
    /\ settings' = [settings EXCEPT !.PERSONALIZATION_ENABLED = v]
    /\ UNCHANGED <<cbvars, rollout_percentage, req>>
    /\ UNCHANGED harness

\* settings.ROLLOUT_PERCENTAGE = v
SetRolloutPercentage(v) ==
    /\ settings' = [settings EXCEPT !.ROLLOUT_PERCENTAGE = v]
    /\ UNCHANGED <<cbvars, rollout_percentage, req>>
    /\ UNCHANGED harness

\* ConfigBasedFeatureFlagService.set_rollout_percentage
set_rollout_percentage(percentage) ==
    /\ rollout_percentage' = Max(0, Min(100, percentage))
    /\ UNCHANGED <<cbvars, settings, req>>
    /\ UNCHANGED harness

\* The clock of the feed service advances.
FeedTick ==
    /\ now < ConstructTime + MaxFeedTicks * FeedTickHours * HOUR
    /\ now' = now + FeedTickHours * HOUR
    /\ UNCHANGED <<cb, failure_threshold, recovery_timeout_sec, lock, thr, consec>>
    /\ UNCHANGED feedvars
    /\ UNCHANGED harness

Next ==
    \/ \E tenant_id \in Tenants, user_hash \in Users, limit \in 1..MaxLimit,
          cursor \in ClientCursors : GetFeed(tenant_id, user_hash, limit, cursor)
    \/ \E ok \in BOOLEAN : FetchSignals(ok)
    \/ \E ok \in BOOLEAN : FetchCandidates(ok)
    \/ \E ok \in BOOLEAN : FetchConfig(ok)
    \/ \E ok \in BOOLEAN : FetchFallback(ok)
    \/ \E if_none_match \in IfNoneMatchValues : Return(if_none_match)
    \/ \E v \in BOOLEAN : SetKillSwitch(v)
    \/ \E v \in BOOLEAN : SetPersonalizationEnabled(v)
    \/ \E v \in RolloutValues : SetRolloutPercentage(v)
    \/ \E v \in RolloutValues : set_rollout_percentage(v)
    \/ FeedTick

\* ------------------------------------------- ranking engine: callers

\* Longest candidate list drawn freely from the pool.
MaxCandidates == 3

\* A candidate with a maturity rating.
RatedVideo(id, score, tags, maturity_rating, hours_old) ==
    [id |-> id, score |-> score, tags |-> tags, maturity_rating |-> maturity_rating,
     published_at |-> ConstructTime - hours_old * HOUR]

\* Candidates handed to rank: A and B score alike, C is recent and rated R,
\* D is old, E has a rating that is not on the ladder.
VideoA == RatedVideo("A", 50, {"x"}, "G", 0)
VideoB == RatedVideo("B", 50, {"x"}, "G", 0)
VideoC == RatedVideo("C", 80, {"y"}, "R", 24)
VideoD == RatedVideo("D", 20, {"z"}, "PG", 72)
VideoE == RatedVideo("E", 5, {}, "X", 0)

\* Sequences over S without repetition (ids are unique within a tenant), of
\* length up to n.
SeqsNoRep(S, n) ==
    {s \in UNION {[1..k -> S] : k \in 0..n} :
        \A i, j \in DOMAIN s : i # j => s[i] # s[j]}

\* candidates: List[VideoMetadata]
CandidateLists ==
    SeqsNoRep({VideoA, VideoB, VideoC, VideoD}, MaxCandidates)
        \cup {<<VideoC, VideoA, VideoB, VideoD, VideoE>>}

\* user: UserSignals
RankUsers ==
    { [user_hash |-> "u0", watched_ids |-> {}, affinities |-> <<>>],
      [user_hash |-> "u1", watched_ids |-> {"C"}, affinities |-> [x |-> 5]],
      [user_hash |-> "u2", watched_ids |-> {}, affinities |-> [y |-> 10, z |-> 3]] }

\* config.editorial_boosts: Dict[str, int], positions 0-based
EditorialBoosts ==
    { <<>>, [E |-> 0], [C |-> 0], [A |-> 1, C |-> 1], [D |-> 0, A |-> 7] }

\* config: TenantRankingRules
RankConfigs ==
    { [tenant_id |-> "t", boost_weights |-> w, exclude_tags |-> x,
       max_maturity |-> m, editorial_boosts |-> e] :
         w \in {Weights(10, 10, 10), Weights(15, 5, 20)},
         x \in {{}, {"z"}},
         m \in {"", "PG", "X"},
         e \in EditorialBoosts }

\* cursor: what a client can send to rank, an object with a negative offset
\* and a JSON scalar included.
RankCursors ==
    ClientCursors \cup {Cursor("json_object", "int", -1),
                        Cursor("json_scalar", "missing", 0)}

\* A caller holding the arguments of rank, before its first call.  Fields:
\*   start   the cursor of the first call;  cursor  the cursor of the last call
\*   out     what the last call returned (or that it raised)
\*   pages   the items of all pages read so far, concatenated
\*   calls   the number of calls of rank made so far
RankCaller(candidates, user, config) ==
    [pc |-> "ready", candidates |-> candidates, user |-> user, config |-> config,
     limit |-> 1, start |-> NoCursor, cursor |-> NoCursor,
     out |-> [raised |-> FALSE, items |-> <<>>, next_cursor |-> NoCursor,
              has_more |-> FALSE],
     pages |-> <<>>, calls |-> 0]

\* engine.rank(candidates, user, config, limit, cursor): the first page.
RankFirst(limit, cursor) ==
    /\ rk.pc = "ready"
    /\ LET out == rank(rk.candidates, rk.user, rk.config, limit, cursor, now)
       IN rk' = [rk EXCEPT !.pc = "called", !.limit = limit, !.start = cursor,
                           !.cursor = cursor, !.out = out, !.pages = out.items,
                           !.calls = 1]
    /\ UNCHANGED <<cbvars, feedvars, sc, first, aux>>

\* engine.rank(..., cursor=next_cursor): the returned cursor fed back verbatim
\* with the same limit.
RankNext ==
    /\ rk.pc = "called"
    /\ ~rk.out.raised
    /\ rk.out.has_more
    /\ LET out == rank(rk.candidates, rk.user, rk.config, rk.limit,
                       rk.out.next_cursor, now)
       IN rk' = [rk EXCEPT !.cursor = rk.out.next_cursor, !.out = out,
                           !.pages = rk.pages \o out.items,
                           !.calls = rk.calls + 1]
    /\ UNCHANGED <<cbvars, feedvars, sc, first, aux>>

\* A RankingEngine and a caller with any arguments within the bounds.
RankInit ==
    /\ cb = NewBreaker
    /\ failure_threshold = CIRCUIT_BREAKER_FAILURE_THRESHOLD
    /\ recovery_timeout_sec = CIRCUIT_BREAKER_RECOVERY_TIMEOUT_SEC
    /\ lock = 0
    /\ now = ConstructTime
    /\ thr = [t \in Threads |-> IdleThread]
    /\ consec = 0
    /\ FeedVarsInit
    /\ \E candidates \in CandidateLists, user \in RankUsers, config \in RankConfigs :
          rk = RankCaller(candidates, user, config)
    /\ sc = [pc |-> "none"]
    /\ first = [seen |-> FALSE]
    /\ AuxInit

RankStep ==
    \/ \E limit \in 1..MaxLimit, cursor \in RankCursors : RankFirst(limit, cursor)
    \/ RankNext

\* ------------------------------------------- ranking engine: scoring

\* boost_weights values (Dict[str, float], in tenths): -1.0, 0.0, 1.0, 2.0
WeightValues == {-10, 0, 10, 20}

\* A candidate scored for a user under a config; key is the weight raised
\* before the last scoring and previous the final_score before it.
ScoreInit ==
    /\ cb = NewBreaker
    /\ failure_threshold = CIRCUIT_BREAKER_FAILURE_THRESHOLD
    /\ recovery_timeout_sec = CIRCUIT_BREAKER_RECOVERY_TIMEOUT_SEC
    /\ lock = 0
    /\ now = ConstructTime
    /\ thr = [t \in Threads |-> IdleThread]
    /\ consec = 0
    /\ FeedVarsInit
    /\ rk = [pc |-> "none"]
    /\ first = [seen |-> FALSE]
    /\ AuxInit
    /\ \E video \in {VideoA, VideoC, VideoD, VideoE}, user \in RankUsers,
          r, p, a \in WeightValues :
          sc = [pc |-> "ready", video |-> video, user |-> user,
                config |-> [get_default_config("t") EXCEPT
                              !.boost_weights = Weights(r, p, a)],
                final_score |-> 0, key |-> "none", previous |-> 0]

\* _score_candidates([video], user, config)
ScoreFirst ==
    /\ sc.pc = "ready"
    /\ sc' = [sc EXCEPT
                !.pc = "scored",
                !.final_score =
                    _score_candidates(<<sc.video>>, sc.user, sc.config, now)[1].final_score]
    /\ UNCHANGED <<cbvars, feedvars, rk, first, aux>>

\* The same candidate scored again for the same user at the same clock, under
\* a config whose boost_weights[key] was raised to w.
Rescore(key, w) ==
    /\ sc.pc \in {"scored", "rescored"}
    /\ w > sc.config.boost_weights[key]
    /\ LET config == [sc.config EXCEPT !.boost_weights[key] = w]
       IN sc' = [sc EXCEPT
                   !.pc = "rescored",
                   !.config = config,
                   !.key = key,
                   !.previous = sc.final_score,
                   !.final_score =
                       _score_candidates(<<sc.video>>, sc.user, config, now)[1].final_score]
    /\ UNCHANGED <<cbvars, feedvars, rk, first, aux>>

ScoreStep ==
    \/ ScoreFirst
    \/ \E key \in {"recency", "popularity", "user_affinity"}, w \in WeightValues :
          Rescore(key, w)

\* ------------------------------- feed service: fixed repositories

\* The route answers the client; an observer may note the first response it
\* sees, with the arguments of its request.
Observe(record) ==
    /\ req.pc = "done"
    /\ req' = [NoRequest EXCEPT !.http = get_feed_route(req.resp, NoHeader)]
    /\ first' = IF record /\ ~first.seen
                THEN [seen |-> TRUE, tenant_id |-> req.tenant_id,
                      user_hash |-> req.user_hash, limit |-> req.limit,
                      cursor |-> req.cursor, items |-> req.resp.items]
                ELSE first
    /\ UNCHANGED <<cbvars, settings, rollout_percentage, rk, sc, aux>>

\* Requests served one after another while the repositories answer every
\* fetch, the settings stay as they are and the clock stands still.
FixedNext ==
    \/ \E tenant_id \in Tenants, user_hash \in Users, limit \in 1..MaxLimit,
          cursor \in ClientCursors : GetFeed(tenant_id, user_hash, limit, cursor)
    \/ FetchSignals(TRUE)
    \/ FetchCandidates(TRUE)
    \/ FetchConfig(TRUE)
    \/ FetchFallback(TRUE)
    \/ \E record \in BOOLEAN : Observe(record)

\* ------------------------------------------------ GET /v1/feed: ETags

\* Largest number of items of a response whose ETag is compared.
MaxItems == 2

\* Item ids, one of them the concatenation of the two others.
ETagIds == {"a", "b", "ab"}

ItemIdSeqs == UNION {[1..n -> ETagIds] : n \in 0..MaxItems}

\* The breaker, the settings and the harnesses of the ranking engine as
\* constructed, nothing in progress.
QuietInit ==
    /\ cb = NewBreaker
    /\ failure_threshold = CIRCUIT_BREAKER_FAILURE_THRESHOLD
    /\ recovery_timeout_sec = CIRCUIT_BREAKER_RECOVERY_TIMEOUT_SEC
    /\ lock = 0
    /\ now = ConstructTime
    /\ thr = [t \in Threads |-> IdleThread]
    /\ consec = 0
    /\ FeedVarsInit
    /\ rk = [pc |-> "none"]
    /\ sc = [pc |-> "none"]
    /\ first = [seen |-> FALSE]

\* Two feed responses with any items within the bounds.
ETagInit ==
    /\ QuietInit
    /\ \E ids1 \in ItemIdSeqs, ids2 \in ItemIdSeqs :
          et = [pc |-> "start", ids1 |-> ids1, ids2 |-> ids2,
                etag1 |-> NoHeader, etag2 |-> NoHeader]
    /\ cache = NoCache
    /\ cth = <<>>
    /\ cop = [op |-> "none"]
    /\ fl = [pc |-> "none"]

\* The route answers both responses, for a client that sends no
\* If-None-Match.
RouteBoth ==
    /\ et.pc = "start"
    /\ et' = [et EXCEPT
                !.pc = "done",
                !.etag1 = get_feed_route(
                              FeedResponse(et.ids1, NoCursor, FALSE, FALSE, FALSE),
                              NoHeader).etag,
                !.etag2 = get_feed_route(
                              FeedResponse(et.ids2, NoCursor, FALSE, FALSE, FALSE),
                              NoHeader).etag]
    /\ UNCHANGED <<cbvars, feedvars, rk, sc, first, cache, cth, cop, fl>>

\* ------------------------------------------ feature flags: evaluations

\* Percentages the flag service is constructed with (unclamped) and that
\* set_rollout_percentage is called with: below and above the range, the
\* ends of the range, and each side of the buckets of two users.
FlagPercentages == {-10, 0, 45, 46, 84, 85, 100, 150}

\* No evaluation made yet.  An evaluation records the arguments, the
\* settings and the percentage it read, and its result.
NoEvaluation ==
    [pc |-> "none", result |-> FALSE, repeats |-> FALSE, first |-> <<>>]

\* A flag service constructed with any percentage, under any settings.
FlagInit ==
    /\ cb = NewBreaker
    /\ failure_threshold = CIRCUIT_BREAKER_FAILURE_THRESHOLD
    /\ recovery_timeout_sec = CIRCUIT_BREAKER_RECOVERY_TIMEOUT_SEC
    /\ lock = 0
    /\ now = ConstructTime
    /\ thr = [t \in Threads |-> IdleThread]
    /\ consec = 0
    /\ \E k \in BOOLEAN, p \in BOOLEAN :
          settings = [KILL_SWITCH_ACTIVE |-> k, PERSONALIZATION_ENABLED |-> p,
                      ROLLOUT_PERCENTAGE |-> 100]
    /\ rollout_percentage \in FlagPercentages
    /\ req = NoRequest
    /\ rk = [pc |-> "none"]
    /\ sc = [pc |-> "none"]
    /\ first = [seen |-> FALSE]
    /\ et = [pc |-> "none"]
    /\ cache = NoCache
    /\ cth = <<>>
    /\ cop = [op |-> "none"]
    /\ fl = NoEvaluation

\* is_personalization_enabled(tenant_id, user_hash); the tenant is not used.
\* The first evaluation is kept, and of a later one its result and whether
\* it repeats the first: the same user_hash, settings and percentage.
IsPersonalizationEnabled(user_hash) ==
    /\ LET evaluation ==
               [user_hash |-> user_hash, st |-> settings,
                percentage |-> rollout_percentage,
                result |-> is_personalization_enabled(settings, rollout_percentage,
                                                      user_hash)]
       IN fl' = IF fl.pc = "none"
                THEN [pc |-> "called", result |-> evaluation.result,
                      repeats |-> FALSE, first |-> evaluation]
                ELSE [fl EXCEPT
                        !.result = evaluation.result,
                        !.repeats = /\ fl.first.user_hash = user_hash
                                    /\ fl.first.st = settings
                                    /\ fl.first.percentage = rollout_percentage]
    /\ UNCHANGED <<cbvars, feedvars, rk, sc, first, et, cache, cth, cop>>

FlagNext ==
    \/ \E user_hash \in Users : IsPersonalizationEnabled(user_hash)
    \/ \E v \in BOOLEAN : SetKillSwitch(v)
    \/ \E v \in BOOLEAN : SetPersonalizationEnabled(v)
    \/ \E percentage \in FlagPercentages : set_rollout_percentage(percentage)

\* ------------------------------------------- feed service: cold start

\* The fixture users and a user no signals are recorded for.
ColdUsers == Users \cup {"user_unknown_123"}

\* A user signal repository answers None.
FetchSignalsNone ==
    /\ req.pc = "get_signals"
    /\ req' = [req EXCEPT !.pc = "get_candidates", !.signals_none = TRUE]
    /\ UNCHANGED <<cbvars, settings, rollout_percentage>>
    /\ UNCHANGED harness

\* A tenant config repository answers None: no config is stored for the
\* tenant.
FetchConfigNone ==
    /\ req.pc = "get_config"
    /\ PersonalizeWith(TRUE)
    /\ UNCHANGED <<failure_threshold, recovery_timeout_sec, lock, now, thr>>
    /\ UNCHANGED <<settings, rollout_percentage>>
    /\ UNCHANGED harness

\* Requests served one after another by repositories that answer every
\* fetch, with signals and configs that may be missing.
ColdNext ==
    \/ \E tenant_id \in Tenants, user_hash \in ColdUsers, limit \in 1..MaxLimit,
          cursor \in ClientCursors : GetFeed(tenant_id, user_hash, limit, cursor)
    \/ FetchSignals(TRUE)
    \/ FetchSignalsNone
    \/ FetchCandidates(TRUE)
    \/ FetchConfig(TRUE)
    \/ FetchConfigNone
    \/ FetchFallback(TRUE)
    \/ Return(NoHeader)

\* ------------------------------------------- TTL cache: one caller

\* A cache constructed with any default TTL, at clock reading 0.
CacheInit ==
    /\ cb = NewBreaker
    /\ failure_threshold = CIRCUIT_BREAKER_FAILURE_THRESHOLD
    /\ recovery_timeout_sec = CIRCUIT_BREAKER_RECOVERY_TIMEOUT_SEC
    /\ lock = 0
    /\ now = 0
    /\ thr = [t \in Threads |-> IdleThread]
    /\ consec = 0
    /\ FeedVarsInit
    /\ rk = [pc |-> "none"]
    /\ sc = [pc |-> "none"]
    /\ first = [seen |-> FALSE]
    /\ et = [pc |-> "none"]
    /\ \E default_ttl_seconds \in TtlValues : cache = InMemoryCache(default_ttl_seconds)
    /\ cth = [t \in Threads |-> IdleCall]
    /\ cop = NoCall
    /\ fl = [pc |-> "none"]

\* cache.get(key)
Get(key) ==
    /\ LET got == get(cache.store, key, now)
       IN /\ cache' = [cache EXCEPT !.store = got.store]
          /\ cop' = [NoCall EXCEPT !.op = "get", !.key = key, !.result = got.result,
                                   !.existed = cache.store[key].present]
    /\ UNCHANGED <<cbvars, feedvars, rk, sc, first, et, cth, fl>>

\* cache.set(key, value, ttl_seconds)
Set(key, value, ttl_seconds) ==
    /\ cache' = [cache EXCEPT !.store = set(cache, key, value, ttl_seconds, now)]
    /\ cop' = [NoCall EXCEPT !.op = "set", !.key = key, !.value = value,
                             !.ttl = ttl_seconds]
    /\ UNCHANGED <<cbvars, feedvars, rk, sc, first, et, cth, fl>>

\* cache.delete(key)
Delete(key) ==
    /\ LET deleted == delete(cache.store, key)
       IN /\ cache' = [cache EXCEPT !.store = deleted.store]
          /\ cop' = [NoCall EXCEPT !.op = "delete", !.key = key,
                                   !.existed = deleted.result]
    /\ UNCHANGED <<cbvars, feedvars, rk, sc, first, et, cth, fl>>

\* cache.clear()
Clear ==
    /\ cache' = [cache EXCEPT !.store = clear(cache.store)]
    /\ cop' = [NoCall EXCEPT !.op = "clear"]
    /\ UNCHANGED <<cbvars, feedvars, rk, sc, first, et, cth, fl>>

\* cache.get_or_set(key, factory, ttl_seconds), the factory returning
\* computed_value
GetOrSet(key, computed_value, ttl_seconds) ==
    /\ LET done == get_or_set(cache, key, computed_value, ttl_seconds, now)
       IN /\ cache' = [cache EXCEPT !.store = done.store]
          /\ cop' = [NoCall EXCEPT !.op = "get_or_set", !.key = key,
                                   !.value = computed_value, !.ttl = ttl_seconds,
                                   !.result = done.result,
                                   !.factory_calls = done.factory_calls]
    /\ UNCHANGED <<cbvars, feedvars, rk, sc, first, et, cth, fl>>

\* cache.size()
Size ==
    /\ cop' = [NoCall EXCEPT !.op = "size", !.count = size(cache.store)]
    /\ UNCHANGED <<cbvars, feedvars, rk, sc, first, et, cache, cth, fl>>

\* cache.cleanup_expired()
CleanupExpired ==
    /\ LET cleaned == cleanup_expired(cache.store, now)
       IN /\ cache' = [cache EXCEPT !.store = cleaned.store]
          /\ cop' = [NoCall EXCEPT !.op = "cleanup_expired", !.count = cleaned.result]
    /\ UNCHANGED <<cbvars, feedvars, rk, sc, first, et, cth, fl>>

CacheSeqNext ==
    \/ \E key \in CacheKeys : Get(key)
    \/ \E key \in CacheKeys, value \in CacheValues, ttl_seconds \in TtlValues :
          Set(key, value, ttl_seconds)
    \/ \E key \in CacheKeys : Delete(key)
    \/ Clear
    \/ \E key \in CacheKeys, computed_value \in CacheValues, ttl_seconds \in TtlValues :
          GetOrSet(key, computed_value, ttl_seconds)
    \/ Size
    \/ CleanupExpired
    \/ Tick

\* ------------------------------------------- TTL cache: threads

\* The threads whose calls have returned.
Returned == {u \in Threads : cth[u].pc = "done"}

\* A call of thread t, invoked now.
NewCall(op, key, value, ttl_seconds) ==
    [IdleCall EXCEPT !.op = op, !.key = key, !.value = value, !.ttl = ttl_seconds,
                     !.t_inv = now, !.t_res = now, !.after = Returned]

\* Thread t calls cache.get(key): the whole method runs under the lock.
GetCall(t, key) ==
    /\ cth[t].pc = "idle"
    /\ cache.lock = 0
    /\ LET got == get(cache.store, key, now)
       IN /\ cache' = [cache EXCEPT !.store = got.store]
          /\ cth' = [cth EXCEPT ![t] = [NewCall("get", key, NoValue, None) EXCEPT
                                          !.pc = "done", !.result = got.result]]
    /\ UNCHANGED <<cbvars, feedvars, rk, sc, first, et, cop, fl>>

\* Thread t calls cache.set(key, value, ttl_seconds) and computes expires_at
\* from the clock, before it takes the lock.
SetCall(t, key, value, ttl_seconds) ==
    /\ cth[t].pc = "idle"
    /\ cth' = [cth EXCEPT ![t] = [NewCall("set", key, value, ttl_seconds) EXCEPT
                                    !.pc = "set_store",
                                    !.expires_at = expires_at_of(ttl_seconds,
                                                                 cache.default_ttl, now)]]
    /\ UNCHANGED <<cbvars, feedvars, rk, sc, first, et, cache, cop, fl>>

\* Thread t, in set, stores the entry under the lock and returns; a
\* get_or_set returns the computed value.
SetStore(t) ==
    /\ cth[t].pc = "set_store"
    /\ cache.lock = 0
    /\ cache' = [cache EXCEPT !.store = store_entry(cache.store, cth[t].key,
                                                    cth[t].value, cth[t].expires_at)]
    /\ cth' = [cth EXCEPT ![t].pc = "done",
                          ![t].t_res = now,
                          ![t].result = IF cth[t].op = "get_or_set" THEN cth[t].value
                                        ELSE NoValue]
    /\ UNCHANGED <<cbvars, feedvars, rk, sc, first, et, cop, fl>>

\* Thread t calls cache.delete(key).
DeleteCall(t, key) ==
    /\ cth[t].pc = "idle"
    /\ cache.lock = 0
    /\ LET deleted == delete(cache.store, key)
       IN /\ cache' = [cache EXCEPT !.store = deleted.store]
          /\ cth' = [cth EXCEPT ![t] = [NewCall("delete", key, NoValue, None) EXCEPT
                                          !.pc = "done", !.existed = deleted.result]]
    /\ UNCHANGED <<cbvars, feedvars, rk, sc, first, et, cop, fl>>

\* Thread t calls cache.clear().
ClearCall(t) ==
    /\ cth[t].pc = "idle"
    /\ cache.lock = 0
    /\ cache' = [cache EXCEPT !.store = clear(cache.store)]
    /\ cth' = [cth EXCEPT ![t] = [NewCall("clear", "", NoValue, None) EXCEPT
                                    !.pc = "done"]]
    /\ UNCHANGED <<cbvars, feedvars, rk, sc, first, et, cop, fl>>

\* Thread t calls cache.get_or_set(key, factory, ttl_seconds), for a factory
\* that returns value: self.get(key) returns the cached value, or None.
GetOrSetCall(t, key, value, ttl_seconds) ==
    /\ cth[t].pc = "idle"
    /\ cache.lock = 0
    /\ LET got == get(cache.store, key, now)
       IN /\ cache' = [cache EXCEPT !.store = got.store, !.lock = lock_after_get(t)]
          /\ cth' = [cth EXCEPT ![t] =
                       [NewCall("get_or_set", key, value, ttl_seconds) EXCEPT
                          !.pc = IF got.result # NoValue THEN "done" ELSE "factory",
                          !.result = got.result]]
    /\ UNCHANGED <<cbvars, feedvars, rk, sc, first, et, cop, fl>>

\* Thread t, in get_or_set, runs the factory; no lock is held.
Factory(t) ==
    /\ cth[t].pc = "factory"
    /\ cth' = [cth EXCEPT ![t].pc = "set_expiry"]
    /\ UNCHANGED <<cbvars, feedvars, rk, sc, first, et, cache, cop, fl>>

\* Thread t, in get_or_set, enters self.set and computes expires_at from
\* the clock.
SetExpiry(t) ==
    /\ cth[t].pc = "set_expiry"
    /\ cth' = [cth EXCEPT ![t].pc = "set_store",
                          ![t].expires_at = expires_at_of(cth[t].ttl, cache.default_ttl,
                                                          now)]
    /\ UNCHANGED <<cbvars, feedvars, rk, sc, first, et, cache, cop, fl>>

\* Thread t calls cache.size().
SizeCall(t) ==
    /\ cth[t].pc = "idle"
    /\ cache.lock = 0
    /\ cth' = [cth EXCEPT ![t] = [NewCall("size", "", NoValue, None) EXCEPT
                                    !.pc = "done", !.count = size(cache.store)]]
    /\ UNCHANGED <<cbvars, feedvars, rk, sc, first, et, cache, cop, fl>>

\* Thread t calls cache.cleanup_expired().
CleanupExpiredCall(t) ==
    /\ cth[t].pc = "idle"
    /\ cache.lock = 0
    /\ LET cleaned == cleanup_expired(cache.store, now)
       IN /\ cache' = [cache EXCEPT !.store = cleaned.store]
          /\ cth' = [cth EXCEPT ![t] =
                       [NewCall("cleanup_expired", "", NoValue, None) EXCEPT
                          !.pc = "done", !.count = cleaned.result]]
    /\ UNCHANGED <<cbvars, feedvars, rk, sc, first, et, cop, fl>>

\* Each thread makes one call on the cache, the calls overlapping in any way.
CacheNext ==
    \/ \E t \in Threads, key \in CacheKeys : GetCall(t, key)
    \/ \E t \in Threads, key \in CacheKeys, value \in CacheValues,
          ttl_seconds \in TtlValues : SetCall(t, key, value, ttl_seconds)
    \/ \E t \in Threads : SetStore(t)
    \/ \E t \in Threads, key \in CacheKeys : DeleteCall(t, key)
    \/ \E t \in Threads : ClearCall(t)
    \/ \E t \in Threads, key \in CacheKeys, value \in CacheValues,
          ttl_seconds \in TtlValues : GetOrSetCall(t, key, value, ttl_seconds)
    \/ \E t \in Threads : Factory(t)
    \/ \E t \in Threads : SetExpiry(t)
    \/ \E t \in Threads : SizeCall(t)
    \/ \E t \in Threads : CleanupExpiredCall(t)
    \/ Tick

\* ------------------------------------ TTL cache: concurrent get_or_set

\* Each thread calls get_or_set once, with the default TTL of the cache, all
\* at the same reading of the clock.
StampedeNext ==
    \/ \E t \in Threads, key \in CacheKeys, value \in CacheValues :
          GetOrSetCall(t, key, value, None)
    \/ \E t \in Threads : Factory(t)
    \/ \E t \in Threads : SetExpiry(t)
    \/ \E t \in Threads : SetStore(t)

\* ------------------------------------------- feed service: cancellation

\* The repository fetches a get_feed request is suspended in.
SuspensionPoints == {"get_signals", "get_candidates", "get_config", "get_fallback_feed"}

\* Variant in which the except clause of get_feed catches the cancellation
\* like a failed fetch.
Cancel_caught ==
    /\ req.pc \in SuspensionPoints
    /\ req' = FetchRaised
    /\ UNCHANGED <<cbvars, settings, rollout_percentage>>
    /\ UNCHANGED harness

\* The task of a request is cancelled while it awaits a fetch:
\* asyncio.CancelledError is raised at the await; it is no Exception, so the
\* except clause of get_feed lets it through and the request is over
\* without a response.
Cancel ==
    /\ req.pc \in SuspensionPoints
    /\ req' = [NoRequest EXCEPT !.cause = "cancelled"]
    /\ UNCHANGED <<cbvars, settings, rollout_percentage>>
    /\ UNCHANGED harness

\* Requests served one after another, any of which may be cancelled, while
\* the kill switch is operated.
CancelNext ==
    \/ \E tenant_id \in Tenants, user_hash \in Users, limit \in 1..MaxLimit,
          cursor \in ClientCursors : GetFeed(tenant_id, user_hash, limit, cursor)
    \/ \E ok \in BOOLEAN : FetchSignals(ok)
    \/ \E ok \in BOOLEAN : FetchCandidates(ok)
    \/ \E ok \in BOOLEAN : FetchConfig(ok)
    \/ \E ok \in BOOLEAN : FetchFallback(ok)
    \/ Return(NoHeader)
    \/ Cancel
    \/ \E v \in BOOLEAN : SetKillSwitch(v)

\* ------------------------------------ circuit breaker: recovery

\* Largest number of consecutive primary failures after which the primary
\* function fails once more.
MaxFailures == 2

\* func() returns or raises, as Primary; it raises only while fewer than
\* MaxFailures consecutive failures are recorded.
LivePrimary(t, ok) ==
    /\ ok \/ consec < MaxFailures
    /\ Primary(t, ok)

\* The clock advances by one second, without end.  The breaker compares
\* time.time() - _last_failure_time with the recovery timeout only: once now
\* is MaxTime the readings are kept relative to it, so the time of the last
\* failure moves back instead, down to 0 (MaxTime seconds or more ago,
\* which is no less than any recovery timeout).
LiveTick ==
    /\ IF now < MaxTime
       THEN now' = now + 1 /\ cb' = cb
       ELSE /\ now' = now
            /\ cb' = [cb EXCEPT !.last_failure_time =
                        IF @ = None THEN None ELSE Max(@ - 1, 0)]
    /\ UNCHANGED <<failure_threshold, recovery_timeout_sec, lock, thr, consec>>
    /\ UNCHANGED feedvars
    /\ UNCHANGED harness

\* The steps of thread t inside call().
Running(t) ==
    \/ FallbackLocked(t)
    \/ \E ok \in BOOLEAN : LivePrimary(t, ok)
    \/ OnSuccess(t)
    \/ OnFailure(t)
    \/ Fallback(t)

\* A call arrives, with a fallback as the feed service passes one.
Arrival == \E t \in Threads : CallEntry(t, TRUE)

CBLiveNext ==
    \/ Arrival
    \/ \E t \in Threads : Running(t)
    \/ Reset
    \/ LiveTick

\* ----------------------------------------------------- specifications

\* Every thread is outside call().
Quiet == \A t \in Threads : thr[t].pc = "done"

\* call() invoked while no other call is in progress.
SeqCallEntry(t, fb) == Quiet /\ CallEntry(t, fb)

\* reset() invoked while no call is in progress.
SeqReset == Quiet /\ Reset

CBNext ==
    \/ \E t \in Threads, fb \in BOOLEAN : CallEntry(t, fb)
    \/ \E t \in Threads : FallbackLocked(t)
    \/ \E t \in Threads, ok \in BOOLEAN : Primary(t, ok)
    \/ \E t \in Threads : OnSuccess(t)
    \/ \E t \in Threads : OnFailure(t)
    \/ \E t \in Threads : Fallback(t)
    \/ Reset
    \/ Tick

CBSeqNext ==
    \/ \E t \in Threads, fb \in BOOLEAN : SeqCallEntry(t, fb)
    \/ \E t \in Threads : FallbackLocked(t)
    \/ \E t \in Threads, ok \in BOOLEAN : Primary(t, ok)
    \/ \E t \in Threads : OnSuccess(t)
    \/ \E t \in Threads : OnFailure(t)
    \/ \E t \in Threads : Fallback(t)
    \/ SeqReset
    \/ Tick

vars == <<cbvars, feedvars, harness>>

Spec == Init /\ [][Next]_vars

CBSpec == CBInit /\ [][CBNext]_vars

CBSeqSpec == CBInit /\ [][CBSeqNext]_vars

RankSpec == RankInit /\ [][RankStep]_vars

ScoreSpec == ScoreInit /\ [][ScoreStep]_vars

FixedSpec == Init /\ [][FixedNext]_vars

ETagSpec == ETagInit /\ [][RouteBoth]_vars

FlagSpec == FlagInit /\ [][FlagNext]_vars

ColdSpec == Init /\ [][ColdNext]_vars

CacheSeqSpec == CacheInit /\ [][CacheSeqNext]_vars

CacheSpec == CacheInit /\ [][CacheNext]_vars

StampedeSpec == CacheInit /\ [][StampedeNext]_vars

CancelSpec == Init /\ [][CancelNext]_vars

CBSlowSpec == CBSlowInit /\ [][CBNext]_vars

\* Time keeps advancing, calls keep arriving, and a thread inside call()
\* goes on running.
CBLiveSpec ==
    /\ CBSlowInit
    /\ [][CBLiveNext]_vars
    /\ WF_vars(LiveTick)
    /\ WF_vars(Arrival)
    /\ \A t \in Threads : WF_vars(Running(t))

\* --------------------------------------------------- feed service: claims

\* The response get_feed returns when it serves the repository fallback feed.
ExpectedFallback(degraded) ==
    [status |-> "ok",
     items |-> VideoIds(Take(get_fallback_feed(req.tenant_id), req.limit)),
     next_cursor |-> NoCursor, has_more |-> FALSE,
     is_personalized |-> FALSE, degraded |-> degraded]

GateCauses == {"kill_switch", "feature_off", "rollout"}

\* C1: when a repository fetch of the personalized path raised, or the
\* candidate list is empty, and no get_fallback_feed fetch raised, get_feed
\* raises nothing and returns the repository fallback feed with
\* is_personalized = false and degraded = true.
C1_FetchErrorFallsBack ==
    (/\ req.pc = "done"
     /\ ~req.fallback_raised
     /\ \/ req.cause = "fetch_error"
        \/ (req.cause \notin GateCauses /\ get_candidates(req.tenant_id) = <<>>))
    => req.resp = ExpectedFallback(TRUE)

C1_Witness ==
    /\ req.pc = "done"
    /\ req.cause = "fetch_error"
    /\ req.tenant_id = "tenant_sports"
    /\ req.limit = 2
    /\ req.resp.items = <<"v1", "v4">>
    /\ req.resp.degraded

\* C2: a request that finds the kill switch active, personalization disabled
\* or its user outside a rollout percentage fetches the repository fallback
\* feed, and (no fetch of it raising) returns its first `limit` videos with
\* is_personalized = false and degraded = false, without running the ranking.
C2_GateServesFallback ==
    [][/\ (/\ req.pc = "idle"
           /\ req'.pc # "idle"
           /\ \/ settings.KILL_SWITCH_ACTIVE
              \/ ~settings.PERSONALIZATION_ENABLED
              \/ (rollout_percentage < 100
                  /\ md5_bucket(req'.user_hash) >= rollout_percentage)
              \/ SumSeq(UserChars[req'.user_hash]) % 100 >= settings.ROLLOUT_PERCENTAGE)
          => /\ req'.pc = "get_fallback_feed"
             /\ req'.cause \in GateCauses
       /\ (/\ req.cause \in GateCauses
           /\ req.pc # "done"
           /\ req'.pc = "done"
           /\ ~req'.fallback_raised)
          => /\ req'.resp = ExpectedFallback(FALSE)
             /\ ~req'.ran_ranking
             /\ cb' = cb]_vars

C2_Witness ==
    /\ req.pc = "done"
    /\ req.cause = "rollout"
    /\ ~settings.KILL_SWITCH_ACTIVE
    /\ settings.PERSONALIZATION_ENABLED
    /\ req.tenant_id = "tenant_news"
    /\ req.resp.items = <<"n1", "n4">>
    /\ ~req.resp.degraded
    /\ ~req.resp.is_personalized

ErrorCauses == {"fetch_error", "empty", "rank_failed", "breaker_open"}

\* C3: in every response get_feed returns, degraded is true exactly when the
\* items come from a fallback caused by an error or missing data (a fetch
\* that raised, no candidates, a ranking failure, the breaker open).
C3_DegradedIffErrorFallback ==
    (req.pc = "done" /\ req.resp.status = "ok")
    => (req.resp.degraded <=> req.cause \in ErrorCauses)

\* C4: every response whose items a fallback built (the repository fallback
\* feed or the breaker's inline popularity fallback) has is_personalized = false.
C4_FallbackNotPersonalized ==
    (/\ req.pc = "done"
     /\ req.resp.status = "ok"
     /\ req.builder \in {"repo_fallback", "inline_fallback"})
    => ~req.resp.is_personalized

\* The candidates rank is called with: the first CANDIDATE_CAP fetched.
CappedCandidates == Take(get_candidates(req.tenant_id), CANDIDATE_CAP)

\* The score of the candidate with the given id.
ScoreOfId(id) ==
    LET i == CHOOSE j \in 1..Len(CappedCandidates) : CappedCandidates[j].id = id
    IN CappedCandidates[i].score

\* C5: when the ranking raised inside the breaker, or the breaker
\* short-circuited, the items are `limit` (or all) of the capped candidates,
\* none twice, in descending score order, no left-out candidate scoring
\* above a returned one whatever the user's watched ids and the tenant's
\* filters; next_cursor is absent and has_more is false.
C5_InlineFallbackTopByScore ==
    (req.pc = "done" /\ req.cause \in {"rank_failed", "breaker_open"})
    => LET items == req.resp.items
           ids == {items[i] : i \in 1..Len(items)}
           all == {CappedCandidates[i].id : i \in 1..Len(CappedCandidates)}
       IN /\ req.resp.status = "ok"
          /\ Len(items) = Min(req.limit, Len(CappedCandidates))
          /\ Cardinality(ids) = Len(items)
          /\ ids \subseteq all
          /\ \A i \in 1..Len(items), j \in 1..Len(items) :
                i < j => ScoreOfId(items[i]) >= ScoreOfId(items[j])
          /\ \A a \in all \ ids, b \in ids : ScoreOfId(a) <= ScoreOfId(b)
          /\ req.resp.next_cursor = NoCursor
          /\ ~req.resp.has_more

C5_Witness ==
    /\ req.pc = "done"
    /\ req.cause = "breaker_open"
    /\ req.tenant_id = "tenant_news"
    /\ req.user_hash = "user_newsy"
    /\ req.limit = 2
    /\ req.resp.items = <<"n1", "n4">>

\* ------------------------------------------------ circuit breaker: claims

\* The step is thread t entering call().
Enters(t) == thr[t].pc = "done" /\ thr'[t] # thr[t]

\* Seconds since the last recorded failure (None when there is none).
Elapsed == IF cb.last_failure_time = None THEN None ELSE now - cb.last_failure_time

\* C6: with calls made one at a time, the breaker is CLOSED exactly while
\* fewer than failure_threshold primary failures have occurred since the last
\* primary success, and failure_count is 0 after a success.
C6_OpensExactlyAtThreshold ==
    /\ (cb.state = "CLOSED") <=> (consec < failure_threshold)
    /\ (consec = 0) => (cb.failure_count = 0)

C6_Witness ==
    /\ failure_threshold = 2
    /\ consec = 2
    /\ cb.state = "OPEN"

\* C7: a call that finds the breaker OPEN less than recovery_timeout after
\* last_failure_time does not run the primary: it returns fallback() when a
\* fallback was given and raises CircuitBreakerOpenError otherwise.
C7_OpenShortCircuits ==
    [][\A t \in Threads :
        /\ (/\ Enters(t)
            /\ cb.state = "OPEN"
            /\ Elapsed # None
            /\ Elapsed < recovery_timeout_sec)
           => IF thr'[t].has_fallback
              THEN thr'[t].pc = "fallback_locked"
              ELSE /\ thr'[t].pc = "done"
                   /\ thr'[t].outcome = "CircuitBreakerOpenError"
        /\ (thr[t].pc = "fallback_locked" /\ thr'[t] # thr[t])
           => /\ thr'[t].pc = "done"
              /\ thr'[t].outcome = "fallback"]_vars

C7_Witness ==
    \E t \in Threads :
        /\ thr[t].pc = "done"
        /\ thr[t].entry = "short"
        /\ thr[t].outcome = "fallback"
        /\ cb.state = "OPEN"
        /\ Elapsed # None
        /\ Elapsed < recovery_timeout_sec

C9_HalfOpenFailureReopens ==
    [][\A t \in Threads :
        (/\ thr[t].pc = "on_failure"
         /\ thr'[t] # thr[t]
         /\ cb.state = "HALF_OPEN")
        => /\ cb'.state = "OPEN"
           /\ cb'.last_failure_time = now]_vars

\* C10: when the primary raised, call() increments failure_count by exactly
\* one, then returns fallback() when a fallback was given and re-raises the
\* primary's exception otherwise.
C10_FailureCountedOnce ==
    [][\A t \in Threads :
        /\ (thr[t].pc = "on_failure" /\ thr'[t] # thr[t])
           => /\ cb'.failure_count = cb.failure_count + 1
              /\ IF thr[t].has_fallback
                 THEN thr'[t].pc = "fallback"
                 ELSE /\ thr'[t].pc = "done"
                      /\ thr'[t].outcome = "primary_exception"
        /\ (thr[t].pc = "fallback" /\ thr'[t] # thr[t])
           => /\ cb'.failure_count = cb.failure_count
              /\ thr'[t].pc = "done"
              /\ thr'[t].outcome = "fallback"]_vars

C10_Witness ==
    \E t \in Threads :
        /\ thr[t].pc = "done"
        /\ thr[t].entry = "probe"
        /\ thr[t].outcome = "primary_exception"
        /\ cb.state = "OPEN"
        /\ cb.failure_count = failure_threshold + 1

\* ------------------------------------------------ claims: ranking engine

\* The candidate with the given id.
VideoOf(candidates, id) ==
    candidates[CHOOSE i \in 1..Len(candidates) : candidates[i].id = id]

\* The maturity ladder G < PG < PG-13 < R < NC-17.
Ladder == <<"G", "PG", "PG-13", "R", "NC-17">>

\* rating is above max_maturity on the ladder.
Exceeds(rating, max_maturity) ==
    \E i, j \in 1..Len(Ladder) :
        Ladder[i] = rating /\ Ladder[j] = max_maturity /\ i > j

\* C11: no item returned by rank, on any page and editorially pinned videos
\* included, is watched by the user, carries an excluded tag, or has a
\* maturity rating above config.filters.max_maturity on the ladder.
C11_FilterSoundness ==
    rk.pc = "called" =>
        \A i \in 1..Len(rk.pages) :
            LET video == VideoOf(rk.candidates, rk.pages[i]) IN
            /\ video.id \notin rk.user.watched_ids
            /\ video.tags \cap rk.config.exclude_tags = {}
            /\ ~Exceeds(video.maturity_rating, rk.config.max_maturity)

\* All pages were read of a list whose pinned video C is above the cap PG and
\* whose D carries an excluded tag; one video remains.
C11_Witness ==
    /\ rk.pc = "called"
    /\ ~rk.out.has_more
    /\ rk.config.editorial_boosts = [C |-> 0]
    /\ rk.config.max_maturity = "PG"
    /\ rk.config.exclude_tags = {"z"}
    /\ \E i, j \in 1..Len(rk.candidates) :
          rk.candidates[i].id = "C" /\ rk.candidates[j].id = "D"
    /\ Len(rk.pages) = 1

\* The ids of the candidates in ascending order (str comparison).
IdOrder == <<"A", "B", "C", "D", "E">>

IdLess(x, y) ==
    \E i, j \in 1..Len(IdOrder) : IdOrder[i] = x /\ IdOrder[j] = y /\ i < j

\* final_score of the candidate with the given id, for the caller of rank.
ScoreOf(id) == final_score(VideoOf(rk.candidates, id), rk.user, rk.config, now)

\* C12: in the output of rank, two non-editorial candidates with equal
\* final_score appear in ascending id order, whatever their order in the
\* candidate list.
C12_TiesByIdAscending ==
    (rk.pc = "called" /\ ~rk.out.raised) =>
        \A i, j \in 1..Len(rk.out.items) :
            LET x == rk.out.items[i]
                y == rk.out.items[j]
            IN (/\ i < j
                /\ x \notin DOMAIN rk.config.editorial_boosts
                /\ y \notin DOMAIN rk.config.editorial_boosts
                /\ ScoreOf(x) = ScoreOf(y))
               => IdLess(x, y)

\* The candidates that survive filtering, as a set of ids.
SurvivingIds ==
    LET filtered == _filter_candidates(rk.candidates, rk.user, rk.config)
    IN {filtered[i].id : i \in 1..Len(filtered)}

\* The caller started without a cursor and has read every page.
ReadAll ==
    /\ rk.pc = "called"
    /\ rk.start = NoCursor
    /\ ~rk.out.raised
    /\ ~rk.out.has_more

\* The 0-based index of id in the pages read.
PageIndex(id) == (CHOOSE i \in 1..Len(rk.pages) : rk.pages[i] = id) - 1

\* C13: editorial reinsertion never drops or duplicates a scored item, and of
\* two editorial boosts whose videos both survive filtering and target the
\* same position, both videos appear, the one with the smaller id first.
C13_EditorialCollisionKeepsBoth ==
    ReadAll =>
        /\ {rk.pages[i] : i \in 1..Len(rk.pages)} = SurvivingIds
        /\ Len(rk.pages) = Cardinality(SurvivingIds)
        /\ \A x, y \in SurvivingIds \cap DOMAIN rk.config.editorial_boosts :
              (rk.config.editorial_boosts[x] = rk.config.editorial_boosts[y]
               /\ IdLess(x, y))
              => PageIndex(x) < PageIndex(y)

\* The pinned videos that survive filtering.
Pinned == SurvivingIds \cap DOMAIN rk.config.editorial_boosts

\* C14: after editorial overrides with distinct target positions p >= 0, every
\* pinned video sits at index min(p, length of the list at its insertion),
\* the insertions being made in ascending p order into the non-pinned
\* sequence, and the non-pinned videos keep their score order among themselves.
C14_PinnedAtPosition ==
    (/\ ReadAll
     /\ \A x, y \in Pinned :
           x # y => rk.config.editorial_boosts[x] # rk.config.editorial_boosts[y])
    => /\ \A x \in Pinned :
             LET p == rk.config.editorial_boosts[x]
                 length == Cardinality(SurvivingIds \ Pinned)
                             + Cardinality({y \in Pinned :
                                              rk.config.editorial_boosts[y] < p})
             IN PageIndex(x) = Min(p, length)
       /\ \A x, y \in SurvivingIds \ Pinned :
             PageIndex(x) < PageIndex(y) => ScoreOf(x) >= ScoreOf(y)

\* Score order [C, A, B, D, E] with editorial_boosts {E: 0} gave [E, C, A, B, D].
C14_Witness ==
    /\ ReadAll
    /\ rk.config.editorial_boosts = [E |-> 0]
    /\ rk.pages = <<"E", "C", "A", "B", "D">>

\* C15: for fixed candidates, user, config and clock, starting with no cursor
\* and feeding each next_cursor back verbatim with the same limit >= 1, the
\* concatenation of the pages equals the single page returned for a limit at
\* least as large as the number of items: nothing is repeated or skipped.
C15_PagesConcatenateToSinglePage ==
    (ReadAll /\ rk.limit >= 1) =>
        rk.pages = rank(rk.candidates, rk.user, rk.config,
                        Max(1, Len(rk.candidates)), NoCursor, now).items

\* Three items or more were read in at least two pages.
C15_Witness ==
    /\ ReadAll
    /\ rk.cursor # NoCursor
    /\ Len(rk.pages) >= 3
    /\ Len(rk.out.items) < Len(rk.pages)

\* C16: for every rank call that returns, has_more is true iff the
\* post-editorial list has more than offset + limit items, and next_cursor is
\* present iff has_more, in which case it decodes to offset + limit (offset
\* being the integer the call decoded from its cursor).
C16_HasMoreAndNextCursor ==
    (rk.pc = "called" /\ ~rk.out.raised) =>
        LET offset == _decode_cursor(rk.cursor).v
            total == Len(RankedOrder(rk.candidates, rk.user, rk.config, now))
        IN /\ rk.out.has_more <=> (total > offset + rk.limit)
           /\ (rk.out.next_cursor # NoCursor) <=> rk.out.has_more
           /\ rk.out.has_more =>
                 _decode_cursor(rk.out.next_cursor) = IntValue(offset + rk.limit)

\* A call with a cursor of offset 1 returned has_more and the cursor of
\* offset 1 + limit.
C16_Witness ==
    /\ rk.pc = "called"
    /\ rk.cursor = _encode_cursor(1)
    /\ rk.out.has_more
    /\ rk.out.next_cursor = _encode_cursor(1 + rk.limit)

\* A cursor that is not the encoding of an integer offset >= 0.
InvalidCursor(cursor) ==
    ~(cursor.kind = "json_object" /\ cursor.off_t = "int" /\ cursor.off_v >= 0)

\* C17: for every cursor string a client can send, rank does not raise, the
\* offset used for slicing is an integer >= 0, and a cursor that is absent or
\* invalid pages from offset 0.
C17_InvalidCursorIsOffsetZero ==
    rk.pc = "called" =>
        /\ ~rk.out.raised
        /\ _decode_cursor(rk.cursor).t = "int"
        /\ _decode_cursor(rk.cursor).v >= 0
        /\ InvalidCursor(rk.cursor) =>
              rk.out = rank(rk.candidates, rk.user, rk.config, rk.limit, NoCursor, now)

\* ------------------------------------------------------- claims: scoring

\* The weight raised by the step is one the claim speaks of: popularity,
\* recency for a video younger than 48 hours, or user_affinity when a tag of
\* the video has affinity > 0.
RaisedWeightCounts ==
    \/ sc'.key = "popularity"
    \/ sc'.key = "recency" /\ AgeHours(sc.video, now) < 48
    \/ sc'.key = "user_affinity"
         /\ \E tag \in sc.video.tags \cap DOMAIN sc.user.affinities :
               sc.user.affinities[tag] > 0

\* C18 as stated: raising boost_weights.popularity, .recency (video younger
\* than 48h) or .user_affinity (a tag with affinity > 0), the other weights
\* held fixed at any values the config type admits, never decreases final_score.
C18_RaisingWeightNeverDecreases ==
    [][(sc'.pc = "rescored" /\ sc' # sc /\ RaisedWeightCounts)
          => sc'.final_score >= sc.final_score]_vars

\* C18 amended: the same, with the other two weights held fixed at
\* non-negative values.
C18_RaisingWeightNeverDecreasesNonNegative ==
    [][(/\ sc'.pc = "rescored" /\ sc' # sc
        /\ RaisedWeightCounts
        /\ \A k \in {"recency", "popularity", "user_affinity"} \ {sc'.key} :
              sc.config.boost_weights[k] >= 0)
          => sc'.final_score >= sc.final_score]_vars

\* The recency weight of a fresh video was raised, the other weights being
\* positive, and final_score went up.
C18_Witness ==
    /\ sc.pc = "rescored"
    /\ sc.key = "recency"
    /\ AgeHours(sc.video, now) < 48
    /\ sc.config.boost_weights.popularity > 0
    /\ sc.config.boost_weights.user_affinity > 0
    /\ sc.final_score > sc.previous

\* ------------------------------------------------- claims: determinism

\* C19: for fixed repository contents, settings and clock, two get_feed calls
\* with the same (tenant_id, user_hash, limit, cursor) return the same item
\* ids in the same order, whatever requests were served before or between.
C19_SameArgumentsSameItems ==
    (/\ req.pc = "done"
     /\ req.resp.status = "ok"
     /\ first.seen
     /\ req.tenant_id = first.tenant_id
     /\ req.user_hash = first.user_hash
     /\ req.limit = first.limit
     /\ req.cursor = first.cursor)
    => req.resp.items = first.items

\* --------------------------------------------------- claims: GET /v1/feed

\* C20: every 200 response of GET /v1/feed carries Cache-Control
\* 'private, max-age=30' with Vary 'X-User-Hash' exactly when is_personalized
\* is true and degraded is false, and otherwise
\* 'public, max-age=30, stale-while-revalidate=15' with Vary 'Accept-Encoding';
\* X-Personalized always equals is_personalized.
C20_CacheHeadersFollowFlags ==
    [][(req.pc = "done" /\ req'.pc = "idle" /\ req'.http.status_code = 200)
          => /\ IF req.resp.is_personalized /\ ~req.resp.degraded
                THEN /\ req'.http.cache_control = "private, max-age=30"
                     /\ req'.http.vary = "X-User-Hash"
                ELSE /\ req'.http.cache_control =
                          "public, max-age=30, stale-while-revalidate=15"
                     /\ req'.http.vary = "Accept-Encoding"
             /\ req'.http.x_personalized = "true" <=> req.resp.is_personalized
             /\ req'.http.x_personalized = "false" <=> ~req.resp.is_personalized]_vars

\* A ranked feed was answered 200 with the private directives and an ETag.
C20_Witness ==
    /\ req.pc = "idle"
    /\ req.http.status_code = 200
    /\ req.http.cache_control = "private, max-age=30"
    /\ req.http.vary = "X-User-Hash"
    /\ req.http.x_personalized = "true"
    /\ req.http.etag.present

\* C21: GET /v1/feed answers 304 with no body exactly when the feed has at
\* least one item and If-None-Match equals the ETag computed for this
\* response; a feed with no items emits no ETag and is never answered 304.
C21_NotModifiedIffETagMatches ==
    [][(req.pc = "done" /\ req'.pc = "idle" /\ req.resp.status = "ok") =>
       \A if_none_match \in IfNoneMatchValues :
          Return(if_none_match)
          => /\ req'.http.status_code = 304
                   <=> (/\ req.resp.items # <<>>
                        /\ if_none_match.present
                        /\ if_none_match = ETag(req.resp.items))
             /\ req'.http.status_code = 304 => ~req'.http.body
             /\ req'.http.status_code \in {200, 304}
             /\ req.resp.items = <<>> =>
                   (req'.http.status_code = 200 /\ ~req'.http.etag.present)
             /\ (req.resp.items # <<>> /\ req'.http.status_code = 200) =>
                   req'.http.etag = ETag(req.resp.items)]_vars

\* A request was answered 304.
C21_Witness ==
    /\ req.pc = "idle"
    /\ req.http.status_code = 304
    /\ ~req.http.body

\* C22: the ETag is determined by the ordered sequence of item ids: two
\* responses get the same ETag header exactly when their id sequences are
\* equal, so that a different id, a different order or the same characters
\* split differently between ids gives a different ETag.
C22_ETagIdentifiesIdSequence ==
    et.pc = "done" => ((et.etag1 = et.etag2) <=> (et.ids1 = et.ids2))

\* ---------------------------------------------------- claims: feature flags

\* C23: is_personalization_enabled returns false when the kill switch is
\* active, else false when personalization is globally disabled, else, for a
\* rollout percentage below 100, true iff the user's bucket is below the
\* percentage, else true; a rollout of 0 disables every user and a rollout
\* of 100 enables every user; and a call with the user_hash, the settings
\* and the percentage of the first call returns what the first call returned.
C23_FlagPrecedence ==
    [][\A user_hash \in Users :
          IsPersonalizationEnabled(user_hash) =>
             /\ fl'.result =
                  (IF settings.KILL_SWITCH_ACTIVE THEN FALSE
                   ELSE IF ~settings.PERSONALIZATION_ENABLED THEN FALSE
                   ELSE IF rollout_percentage < 100
                        THEN md5_bucket(user_hash) < rollout_percentage
                   ELSE TRUE)
             /\ rollout_percentage = 0 => ~fl'.result
             /\ (/\ rollout_percentage = 100
                 /\ ~settings.KILL_SWITCH_ACTIVE
                 /\ settings.PERSONALIZATION_ENABLED) => fl'.result
             /\ fl'.repeats => fl'.result = fl.first.result]_vars

\* A partial rollout has admitted the user whose bucket is just below the
\* percentage, and a second evaluation has repeated the first.
C23_Witness ==
    /\ fl.pc = "called"
    /\ fl.repeats
    /\ fl.result
    /\ fl.first.user_hash = "user_new"
    /\ fl.first.percentage = 46
    /\ fl.first.result

\* C24: get_feed's own rollout gate puts every user_hash in the bucket the
\* flag service puts it in, so that for equal percentages a request passes
\* the one gate exactly when it passes the other.
C24_GatesShareBuckets ==
    [][\A tenant_id \in Tenants, user_hash \in Users, limit \in 1..MaxLimit,
          cursor \in ClientCursors :
          (/\ GetFeed(tenant_id, user_hash, limit, cursor)
           /\ settings.ROLLOUT_PERCENTAGE = rollout_percentage)
             => /\ user_hash_int(user_hash) % 100 = md5_bucket(user_hash)
                /\ excluded_by_rollout(settings, user_hash)
                     <=> ~_is_user_in_rollout(user_hash, rollout_percentage)]_vars

\* ------------------------------------------- claims: feed service, fetches

\* C25: a repository fetch of get_feed that fails is counted as a failure by
\* the circuit breaker: failure_count is incremented by it.
C25_FetchFailureCounted ==
    [][(FetchSignals(FALSE) \/ FetchCandidates(FALSE) \/ FetchConfig(FALSE))
          => cb'.failure_count = cb.failure_count + 1]_vars

\* C26: when the signals of the user are missing (none recorded, or the
\* fetch returned None) and no config is stored for the tenant, a request
\* that passed the gates and found candidates is answered with the ranking
\* of the candidates under empty signals and the default config, with
\* is_personalized = true and degraded = false.
C26_ColdStartStillRanked ==
    [][(/\ FetchConfigNone
        /\ req.signals_none \/ req.user_hash = "user_unknown_123"
        /\ get_candidates(req.tenant_id) # <<>>)
          => LET ranked == rank(BoundCandidates(get_candidates(req.tenant_id)),
                                UserSignals(req.user_hash),
                                get_default_config(req.tenant_id),
                                req.limit, req.cursor, now)
             IN /\ req'.pc = "done"
                /\ req'.resp.is_personalized
                /\ ~req'.resp.degraded
                /\ req'.builder = "rank"
                /\ ~ranked.raised
                /\ req'.resp.items = ranked.items]_vars

\* ---------------------------------------------------------- claims: cache

\* An entry that get finds and returns: stored, and the clock not past its
\* expiry (or no expiry).
Live(entry, t) ==
    entry.present /\ (entry.expires_at = None \/ t <= entry.expires_at)

\* C27: get(key) returns the stored value iff an entry for key exists and
\* the clock is not past its expiry (or it has none), and then leaves the
\* store as it is; on an expired entry it returns absent and removes the
\* entry, so that size() counts one entry less; on a missing key it returns
\* absent.
C27_GetReturnsLiveEntry ==
    [][\A key \in CacheKeys :
          Get(key) =>
             LET entry == cache.store[key]
             IN /\ Live(entry, now)
                     => cop'.result = entry.value /\ cache'.store = cache.store
                /\ ~Live(entry, now) => cop'.result = NoValue
                /\ (entry.present /\ ~Live(entry, now))
                     => /\ ~cache'.store[key].present
                        /\ size(cache'.store) = size(cache.store) - 1
                        /\ \A k \in CacheKeys \ {key} :
                              cache'.store[k] = cache.store[k]]_vars

\* A get has found an entry past its expiry: it returned absent and the
\* key is no longer stored.
C27_Witness ==
    /\ cop.op = "get"
    /\ cop.existed
    /\ cop.result = NoValue
    /\ ~cache.store[cop.key].present

\* C28: set(key, value, ttl) stores an entry that expires at now + ttl for
\* every ttl supplied, as the argument or else as the default of the
\* constructor, and a never-expiring entry only when neither is supplied.
C28_SetExpiresAtNowPlusTtl ==
    [][\A key \in CacheKeys, value \in CacheValues, ttl_seconds \in TtlValues :
          Set(key, value, ttl_seconds) =>
             LET ttl == IF ttl_seconds # None THEN ttl_seconds ELSE cache.default_ttl
             IN cache'.store[key] =
                  CacheEntry(value, IF ttl # None THEN now + ttl ELSE None)]_vars

\* C29: called by one caller, get_or_set(key, factory) returns the cached
\* value without calling the factory when a live entry for key exists;
\* otherwise it calls the factory once, stores its result under key and
\* returns it, and a following get(key) or get_or_set(key, ...) returns that
\* result without calling a factory.
C29_GetOrSetSequential ==
    [][\A key \in CacheKeys, computed_value \in CacheValues, ttl_seconds \in TtlValues :
          GetOrSet(key, computed_value, ttl_seconds) =>
             LET entry == cache.store[key]
             IN IF Live(entry, now)
                THEN /\ cop'.result = entry.value
                     /\ cop'.factory_calls = 0
                     /\ cache'.store = cache.store
                ELSE /\ cop'.factory_calls = 1
                     /\ cop'.result = computed_value
                     /\ cache'.store[key].present
                     /\ cache'.store[key].value = computed_value
                     /\ get(cache'.store, key, now).result = computed_value
                     /\ \A other \in CacheValues, ttl2 \in TtlValues :
                           LET again == get_or_set(cache', key, other, ttl2, now)
                           IN again.result = computed_value
                              /\ again.factory_calls = 0]_vars

\* A get_or_set has returned the cached value, which is not what its
\* factory would have returned, without calling the factory.
C29_Witness ==
    /\ cop.op = "get_or_set"
    /\ cop.factory_calls = 0
    /\ cop.result # NoValue
    /\ cop.result # cop.value

\* The call c made at time t on a cache nobody else uses, with the store s:
\* the store it leaves, and whether it returns what c returned.
Sequentially(s, c, t) ==
    LET solo == [store |-> s, default_ttl |-> cache.default_ttl]
    IN CASE c.op = "get" ->
              [store |-> get(s, c.key, t).store,
               same |-> get(s, c.key, t).result = c.result]
         [] c.op = "set" ->
              [store |-> set(solo, c.key, c.value, c.ttl, t), same |-> TRUE]
         [] c.op = "delete" ->
              [store |-> delete(s, c.key).store,
               same |-> delete(s, c.key).result = c.existed]
         [] c.op = "clear" -> [store |-> clear(s), same |-> TRUE]
         [] c.op = "get_or_set" ->
              [store |-> get_or_set(solo, c.key, c.value, c.ttl, t).store,
               same |-> get_or_set(solo, c.key, c.value, c.ttl, t).result = c.result]
         [] c.op = "size" -> [store |-> s, same |-> size(s) = c.count]
         [] c.op = "cleanup_expired" ->
              [store |-> cleanup_expired(s, t).store,
               same |-> cleanup_expired(s, t).result = c.count]

\* The calls of the threads of order, made one after another at the times
\* at, starting with the store s, return what the threads got.
RECURSIVE ReplaysAs(_, _, _)
ReplaysAs(s, order, at) ==
    IF order = <<>> THEN TRUE
    ELSE LET step == Sequentially(s, cth[Head(order)], at[Head(order)])
         IN step.same /\ ReplaysAs(step.store, Tail(order), at)

\* The sequential orders of the returned calls that respect their real-time
\* order: a call that returned before another was invoked comes first.
RealTimeOrders ==
    {order \in [1..Cardinality(Returned) -> Returned] :
        /\ \A i, j \in DOMAIN order : i # j => order[i] # order[j]
        /\ \A i, j \in DOMAIN order : order[i] \in cth[order[j]].after => i < j}

\* C30: every concurrent history of get, set, delete, clear, get_or_set, size
\* and cleanup_expired on one cache is linearizable: once the calls have
\* returned, some sequential order of them that respects their real-time
\* order, each call taking effect at a clock reading between its invocation
\* and its response, returns the same results.
C30_Linearizable ==
    (\A t \in Threads : cth[t].pc \in {"idle", "done"})
       => \E order \in RealTimeOrders :
             \E at \in [Returned -> 0..MaxTime] :
                /\ \A t \in Returned : cth[t].t_inv <= at[t] /\ at[t] <= cth[t].t_res
                /\ \A i, j \in DOMAIN order : i < j => at[order[i]] <= at[order[j]]
                /\ ReplaysAs(EmptyStore, order, at)

\* C31: get_or_set never holds the lock of the cache while its factory runs;
\* threads that call get_or_set for a missing key concurrently may each run
\* their factory, every set leaves the value it wrote in the cache, and
\* nothing but a set changes a stored value: once all have returned the
\* cache holds the value of the last set.
C31_FactoryOutsideLockLastWriterWins ==
    [][/\ \A t \in Threads :
             Factory(t) => cache.lock # t /\ cache'.lock # t
       /\ \A t \in Threads :
             SetStore(t) =>
                cache'.store[cth[t].key] = CacheEntry(cth[t].value, cth[t].expires_at)
       /\ (\A t \in Threads : cth[t].pc = "set_store" => cth'[t].pc = "set_store")
             => \A k \in CacheKeys :
                   cache.store[k].present => cache'.store[k] = cache.store[k]]_vars

\* Two threads missed the same key, both ran their factory and returned
\* their own, different values; the cache holds one of them.
C31_Witness ==
    /\ cth[1].pc = "done" /\ cth[2].pc = "done"
    /\ cth[1].op = "get_or_set" /\ cth[2].op = "get_or_set"
    /\ cth[1].key = cth[2].key
    /\ cth[1].result = cth[1].value
    /\ cth[2].result = cth[2].value
    /\ cth[1].value # cth[2].value
    /\ cache.store[cth[1].key].value \in {cth[1].value, cth[2].value}

\* C32: every write to state, failure_count and last_failure_time is made by
\* a step that has taken the mutex of the breaker (no write occurs while
\* another thread holds it), and no thread holds the mutex while it runs
\* the primary function.
C32_WritesUnderLockPrimaryOutside ==
    [][/\ cb' # cb => lock = 0
       /\ \A t \in Threads :
             (thr[t].pc = "primary" /\ thr'[t].pc # "primary") =>
                lock # t /\ lock' # t]_vars

\* A recorded failure has been written, and a thread that is about to
\* record another waits for the mutex that a different thread holds.
C32_Witness ==
    /\ cb.failure_count > 0
    /\ \E t \in Threads :
          /\ thr[t].pc = "on_failure"
          /\ lock # 0
          /\ lock # t

\* C33: a get_feed request cancelled at a repository fetch has written
\* nothing to the breaker or the settings (no step of a request that ends
\* at a suspension point or in the cancellation changes them), and no
\* fallback fetch is started for it.
C33_CancelledRequestLeavesNoTrace ==
    [][/\ (req' # req /\ (req'.pc \in SuspensionPoints \/ req'.cause = "cancelled"))
             => cb' = cb /\ settings' = settings
       /\ Cancel => req'.pc = "idle" /\ req'.resp = NoResponse]_vars

\* A request has been cancelled after earlier requests recorded failures
\* of the ranking and the kill switch was set.
C33_Witness ==
    /\ req.pc = "idle"
    /\ req.cause = "cancelled"
    /\ cb.failure_count > 0
    /\ settings.KILL_SWITCH_ACTIVE

\* C34: in every reachable state of the breaker, under any interleaving of
\* concurrent calls and reset, a CLOSED breaker has counted fewer failures
\* than failure_threshold.
C34_ClosedBelowThreshold ==
    cb.state = "CLOSED" => cb.failure_count < failure_threshold

\* The breaker is CLOSED one failure short of a threshold above one, while
\* another call is in its primary function.
C34_Witness ==
    /\ cb.state = "CLOSED"
    /\ failure_threshold > 1
    /\ cb.failure_count = failure_threshold - 1
    /\ \E t \in Threads : thr[t].pc = "primary"

\* C35: a call that is short-circuited while the breaker is OPEN leaves
\* state, failure_count and last_failure_time unchanged, so the moment at
\* which recovery is attempted is not postponed.
C35_RejectedCallLeavesBreaker ==
    [][\A t \in Threads :
          (/\ cb.state = "OPEN"
           /\ ~_should_attempt_reset(cb, now)
           /\ thr[t].pc = "done"
           /\ \E fb \in BOOLEAN : CallEntry(t, fb))
             => /\ cb' = cb
                /\ thr'[t].entry = "short"
                /\ \A later \in 0..MaxTime :
                      _should_attempt_reset(cb', later) = _should_attempt_reset(cb, later)]_vars

\* The breaker opened at an earlier reading of the clock and is about to
\* reject a call; a call has been rejected before.
C35_Witness ==
    /\ cb.state = "OPEN"
    /\ now > cb.last_failure_time
    /\ ~_should_attempt_reset(cb, now)
    /\ \E t \in Threads :
          /\ thr[t].pc = "done"
          /\ thr[t].entry = "short"
          /\ thr[t].outcome = "CircuitBreakerOpenError"

\* C36: if from some point on the protected function always succeeds, while
\* time keeps advancing and calls keep arriving, the breaker eventually
\* becomes CLOSED and stays CLOSED, under any interleaving of the calls.
C36_RecoversForGood ==
    (<>[][~ \E t \in Threads : Primary(t, FALSE)]_vars) => <>[](cb.state = "CLOSED")

\* The breaker is OPEN after MaxFailures consecutive failures, with a call
\* rejected and the recovery timeout not yet elapsed.
C36_Witness ==
    /\ cb.state = "OPEN"
    /\ consec = MaxFailures
    /\ ~_should_attempt_reset(cb, now)
    /\ \E t \in Threads :
          thr[t].pc = "done" /\ thr[t].entry = "short" /\ thr[t].outcome = "fallback"

\* C37: the content of a client-supplied cursor never affects the circuit
\* breaker: when every fetch succeeds, so that requests differ from valid
\* ones only in their cursors, no sequence of get_feed requests records a
\* failure or moves the breaker out of CLOSED.
C37_CursorsNeverTouchBreaker ==
    cb.failure_count = 0 /\ cb.state = "CLOSED"

\* C38: the item ids of a response served with a public Cache-Control
\* header are a function of tenant_id and limit alone (the first limit ids
\* of the tenant's pre-computed fallback feed), whatever the user_hash, the
\* cursor, the settings and the state of the breaker.
C38_PublicResponseIgnoresUser ==
    [][(/\ req.pc = "done"
        /\ req'.pc = "idle"
        /\ req'.http.cache_control = "public, max-age=30, stale-while-revalidate=15")
          => req.resp.items = VideoIds(Take(get_fallback_feed(req.tenant_id), req.limit))]_vars

\* A user with signals, sending a cursor, has been served a feed that the
\* route answers with the public directives.
C38_Witness ==
    /\ req.pc = "done"
    /\ req.user_hash = "user_sporty"
    /\ req.cursor # NoCursor
    /\ req.resp.items # <<>>
    /\ get_feed_route(req.resp, NoHeader).cache_control
          = "public, max-age=30, stale-while-revalidate=15"

\* ceil(a / b) for a >= 0 and b >= 1
Ceil(a, b) == (a + b - 1) \div b

\* The number of items rank paginates for the caller: those that survive
\* the filters.
RankTotal == Len(RankedOrder(rk.candidates, rk.user, rk.config, now))

\* C39 as stated: paging from the first page with the returned cursors, the
\* page with has_more = false and no next_cursor is reached after at most
\* ceil(total/limit) requests (while has_more holds fewer requests than
\* that have been made), and every next_cursor encodes an offset strictly
\* greater than that of the request that produced it.
C39_PagingEndsWithinCeil ==
    (rk.pc = "called" /\ rk.start = NoCursor /\ ~rk.out.raised) =>
        IF rk.out.has_more
        THEN /\ rk.calls < Ceil(RankTotal, rk.limit)
             /\ _decode_cursor(rk.out.next_cursor).v > _decode_cursor(rk.cursor).v
        ELSE /\ rk.calls <= Ceil(RankTotal, rk.limit)
             /\ rk.out.next_cursor = NoCursor

\* C39, amended: the same with at most max(1, ceil(total/limit)) requests
\* (an empty result still takes the one request that says so); the
\* next_cursor of any request that returns is absent exactly when has_more
\* is false and otherwise encodes an integer offset strictly greater than
\* the offset of the request.
C39_PagingEndsWithinCeilOrOne ==
    (rk.pc = "called" /\ ~rk.out.raised) =>
        /\ IF rk.out.has_more
           THEN /\ rk.out.next_cursor # NoCursor
                /\ _decode_cursor(rk.out.next_cursor).t = "int"
                /\ _decode_cursor(rk.out.next_cursor).v > _decode_cursor(rk.cursor).v
           ELSE rk.out.next_cursor = NoCursor
        /\ rk.start = NoCursor =>
              IF rk.out.has_more
              THEN rk.calls < Max(1, Ceil(RankTotal, rk.limit))
              ELSE rk.calls <= Max(1, Ceil(RankTotal, rk.limit))

\* Paging from the first page has reached the last page with the last of
\* the ceil(total/limit) requests, more than two of them, the last page
\* shorter than the limit.
C39_Witness ==
    /\ rk.pc = "called"
    /\ rk.start = NoCursor
    /\ ~rk.out.raised
    /\ ~rk.out.has_more
    /\ rk.limit > 1
    /\ rk.calls > 2
    /\ rk.calls = Ceil(RankTotal, rk.limit)
    /\ Len(rk.out.items) < rk.limit

\* C40: call() never executes a caller-supplied fallback while holding the
\* mutex of the breaker: no thread is inside a fallback with the lock held.
C40_FallbackOutsideLock ==
    \A t \in Threads : thr[t].pc \in {"fallback_locked", "fallback"} => lock # t

====
